---- MODULE Spec2Model ----
(***************************************************************************)
(* MindSync: calendar normalisation (src/src/calendar_parser.py,           *)
(* src/src/models/calendar_event.py) and meeting-stress scoring            *)
(* (src/src/stress_predictor.py) as a state machine: a caller assembles    *)
(* an input (an event list, a raw calendar payload) and invokes an         *)
(* operation, whose outcome is stored.                                     *)
(*                                                                         *)
(* Representation.                                                         *)
(*  - A datetime is a number of minutes since Monday 00:00 of the week     *)
(*    the model looks at; date(), weekday(), hour and minute are computed  *)
(*    from it.                                                             *)
(*  - A str is a sequence of one-character strings, so that Python's       *)
(*    substring test `kw in text` and str.lower() are computed.            *)
(*  - A float is a fixed-point integer.  Stress components are carried in  *)
(*    thousandths of a point ("milli"), multipliers in tenths, hundredths  *)
(*    or thousandths as named; round(x, 1) yields tenths.  The powers      *)
(*    n ** 1.2, n ** 1.5 and log2(n) are tabulated to three decimals.      *)
(*  - A dict is a record; `k in d` is k \in DOMAIN d.  An operation that   *)
(*    raises yields the record [raised |-> <exception type>].              *)
(***************************************************************************)
EXTENDS Integers, Sequences, FiniteSets, TLC

\* ------------------------------------------------------------------ bounds

\* Longest event list a caller assembles before scoring it.
MaxEvents == 3

\* ------------------------------------------------------------------- text

\* the lower-case letter of each upper-case letter
LowerOf ==
    [A |-> "a", B |-> "b", C |-> "c", D |-> "d", E |-> "e", F |-> "f", G |-> "g",
     H |-> "h", I |-> "i", J |-> "j", K |-> "k", L |-> "l", M |-> "m", N |-> "n",
     O |-> "o", P |-> "p", Q |-> "q", R |-> "r", S |-> "s", T |-> "t", U |-> "u",
     V |-> "v", W |-> "w", X |-> "x", Y |-> "y", Z |-> "z"]

UpperCaseLetters == DOMAIN LowerOf

LowerChar(c) == IF c \in UpperCaseLetters THEN LowerOf[c] ELSE c

RECURSIVE lower(_)
\* str.lower()
lower(text) ==
    IF text = << >> THEN << >> ELSE <<LowerChar(Head(text))>> \o lower(Tail(text))

\* `keyword in text` for two str
contains(text, keyword) ==
    \E i \in 1..(Len(text) - Len(keyword) + 1) :
        SubSeq(text, i, i + Len(keyword) - 1) = keyword

\* any(keyword in text for keyword in keywords)
any_keyword(text, keywords) == \E keyword \in keywords : contains(text, keyword)

\* str.strip() == ""
is_blank(text) == \A i \in 1..Len(text) : text[i] = " "

Min(a, b) == IF a <= b THEN a ELSE b

Max(a, b) == IF a >= b THEN a ELSE b

\* floor(a * b / c) for a >= 0, c > 0, without forming a * b
MulDiv(a, b, c) == (a \div c) * b + ((a % c) * b) \div c

\* ------------------------------------------------- MeetingStressCalculator

\* self.params
alpha1 == 6

\* 0.12, in hundredths
alpha2_centi == 12

alpha3 == 15

alpha4 == 8

alpha5 == 2

\* 0.25, in hundredths
alpha6_centi == 25

alpha7 == 10

high_stress_keywords ==
    { <<"u", "r", "g", "e", "n", "t">>,
      <<"c", "r", "i", "s", "i", "s">>,
      <<"d", "e", "a", "d", "l", "i", "n", "e">>,
      <<"r", "e", "v", "i", "e", "w">>,
      <<"p", "e", "r", "f", "o", "r", "m", "a", "n", "c", "e">>,
      <<"c", "o", "n", "f", "l", "i", "c", "t">>,
      <<"e", "s", "c", "a", "l", "a", "t", "i", "o", "n">>,
      <<"e", "m", "e", "r", "g", "e", "n", "c", "y">>,
      <<"c", "r", "i", "t", "i", "c", "a", "l">>,
      <<"b", "u", "d", "g", "e", "t">>,
      <<"l", "a", "y", "o", "f", "f">>,
      <<"r", "e", "s", "t", "r", "u", "c", "t", "u", "r", "e">>,
      <<"t", "e", "r", "m", "i", "n", "a", "t", "i", "o", "n">>,
      <<"f", "i", "r", "i", "n", "g">>,
      <<"d", "i", "s", "c", "i", "p", "l", "i", "n", "e">> }

medium_stress_keywords ==
    { <<"p", "l", "a", "n", "n", "i", "n", "g">>,
      <<"d", "e", "c", "i", "s", "i", "o", "n">>,
      <<"s", "t", "r", "a", "t", "e", "g", "y">>,
      <<"p", "r", "o", "p", "o", "s", "a", "l">>,
      <<"p", "r", "e", "s", "e", "n", "t", "a", "t", "i", "o", "n">>,
      <<"d", "i", "s", "c", "u", "s", "s", "i", "o", "n">>,
      <<"b", "r", "a", "i", "n", "s", "t", "o", "r", "m">>,
      <<"w", "o", "r", "k", "s", "h", "o", "p">>,
      <<"t", "r", "a", "i", "n", "i", "n", "g">>,
      <<"i", "n", "t", "e", "r", "v", "i", "e", "w">>,
      <<"o", "n", "b", "o", "a", "r", "d", "i", "n", "g">>,
      <<"k", "i", "c", "k", "o", "f", "f">>,
      <<"r", "e", "t", "r", "o", "s", "p", "e", "c", "t", "i", "v", "e">>,
      <<"d", "e", "m", "o">> }

low_stress_keywords ==
    { <<"s", "o", "c", "i", "a", "l">>,
      <<"c", "e", "l", "e", "b", "r", "a", "t", "i", "o", "n">>,
      <<"t", "e", "a", "m", " ", "b", "u", "i", "l", "d", "i", "n", "g">>,
      <<"c", "o", "f", "f", "e", "e">>,
      <<"i", "n", "f", "o", "r", "m", "a", "l">>,
      <<"c", "a", "s", "u", "a", "l">>,
      <<"l", "u", "n", "c", "h">>,
      <<"f", "u", "n">>,
      <<"b", "i", "r", "t", "h", "d", "a", "y">>,
      <<"f", "a", "r", "e", "w", "e", "l", "l">>,
      <<"w", "e", "l", "c", "o", "m", "e">>,
      <<"h", "a", "p", "p", "y", " ", "h", "o", "u", "r">>,
      <<"g", "a", "m", "e">>,
      <<"p", "a", "r", "t", "y">> }

recurring_keywords ==
    { <<"w", "e", "e", "k", "l", "y">>,
      <<"d", "a", "i", "l", "y">>,
      <<"s", "t", "a", "n", "d", "u", "p">>,
      <<"1", ":", "1">>,
      <<"s", "y", "n", "c">>,
      <<"r", "e", "c", "u", "r", "r", "i", "n", "g">>,
      <<"r", "e", "g", "u", "l", "a", "r">>,
      <<"t", "e", "a", "m", " ", "m", "e", "e", "t", "i", "n", "g">>,
      <<"s", "t", "a", "t", "u", "s">>,
      <<"c", "h", "e", "c", "k", "-", "i", "n">>,
      <<"s", "c", "r", "u", "m">>,
      <<"a", "l", "l", " ", "h", "a", "n", "d", "s">>,
      <<"t", "o", "w", "n", "h", "a", "l", "l">> }

urgent_keywords ==
    { <<"u", "r", "g", "e", "n", "t">>,
      <<"e", "m", "e", "r", "g", "e", "n", "c", "y">>,
      <<"a", "s", "a", "p">>,
      <<"i", "m", "m", "e", "d", "i", "a", "t", "e">>,
      <<"c", "r", "i", "s", "i", "s">>,
      <<"e", "s", "c", "a", "l", "a", "t", "i", "o", "n">>,
      <<"b", "r", "e", "a", "k", "i", "n", "g">>,
      <<"u", "r", "g", "e", "n", "t", " ", "c", "a", "l", "l">>,
      <<"f", "i", "r", "e", " ", "d", "r", "i", "l", "l">>,
      <<"h", "o", "t", "f", "i", "x">>,
      <<"i", "n", "c", "i", "d", "e", "n", "t">> }

negative_words ==
    { <<"p", "r", "o", "b", "l", "e", "m">>,
      <<"i", "s", "s", "u", "e">>,
      <<"u", "r", "g", "e", "n", "t">>,
      <<"c", "r", "i", "s", "i", "s">>,
      <<"c", "o", "n", "f", "l", "i", "c", "t">> }

positive_words ==
    { <<"c", "e", "l", "e", "b", "r", "a", "t", "i", "o", "n">>,
      <<"s", "u", "c", "c", "e", "s", "s">>,
      <<"a", "c", "h", "i", "e", "v", "e", "m", "e", "n", "t">>,
      <<"f", "u", "n">>,
      <<"s", "o", "c", "i", "a", "l">> }

TitleWork == <<"W", "o", "r", "k">>

TitleTeamSync == <<"T", "e", "a", "m", " ", "S", "y", "n", "c">>

TitleBudgetCrisisReview == <<"B", "u", "d", "g", "e", "t", " ", "C", "r", "i", "s", "i", "s", " ", "R", "e", "v", "i", "e", "w">>

TitleLunch == <<"L", "u", "n", "c", "h">>

TitleFunSocial == <<"F", "u", "n", " ", "S", "o", "c", "i", "a", "l">>

TitleUntitled == <<"U", "n", "t", "i", "t", "l", "e", "d", " ", "E", "v", "e", "n", "t">>

\* ------------------------------------------------------------ CalendarEvent

\* datetime(day, hour, minute) of the week looked at
At(day, hour, minute) == day * 1440 + hour * 60 + minute

\* datetime.date(), as a day number (0 = the week's Monday)
date_of(t) == t \div 1440

\* datetime.weekday(): 0 = Monday .. 6 = Sunday
weekday_of(t) == (t \div 1440) % 7

\* datetime.hour
hour_of(t) == (t % 1440) \div 60

\* datetime.minute
minute_of(t) == t % 60

\* CalendarEvent.duration_minutes
duration_minutes(event) == event.end_time - event.start_time

\* f"{title} {description}"
event_text(event) == event.title \o <<" ">> \o event.description

\* --------------------------------------------------------- scoring: helpers

\* n ** 1.2, in thousandths
Pow12Milli(n) ==
    CASE n = 1 -> 1000 [] n = 2 -> 2297 [] n = 3 -> 3737 [] n = 4 -> 5278
      [] n = 5 -> 6899 [] n = 6 -> 8586 [] n = 7 -> 10330 [] n = 8 -> 12126

\* n ** 1.5, in thousandths
Pow15Milli(n) ==
    CASE n = 2 -> 2828 [] n = 3 -> 5196 [] n = 4 -> 8000 [] n = 5 -> 11180
      [] n = 6 -> 14697 [] n = 7 -> 18520 [] n = 8 -> 22627

\* math.log2(n), in thousandths
Log2Milli(n) ==
    CASE n = 2 -> 1000 [] n = 3 -> 1585 [] n = 4 -> 2000 [] n = 5 -> 2322
      [] n = 6 -> 2585 [] n = 7 -> 2807 [] n = 8 -> 3000 [] n = 9 -> 3170
      [] n = 10 -> 3322

\* SentimentIntensityAnalyzer.polarity_scores(text)['compound'], by its sign
\* class against the thresholds 0.1 and -0.1: the library's lexicon rates
\* "crisis" negative and "fun" positive, and none of the other words of the
\* titles used here.
polarity_class(text) ==
    LET text_lower == lower(text)
        neg == contains(text_lower, <<"c", "r", "i", "s", "i", "s">>)
        pos == contains(text_lower, <<"f", "u", "n">>)
    IN  IF pos /\ ~neg THEN 1 ELSE IF neg /\ ~pos THEN -1 ELSE 0

\* _analyze_sentiment, in tenths
_analyze_sentiment(event, vader) ==
    LET text == event_text(event)
    IN  IF is_blank(text) THEN 10
        ELSE IF vader
        THEN LET sentiment == polarity_class(text)
             IN  IF sentiment > 0 THEN 9
                 ELSE IF sentiment < 0 THEN 13
                 ELSE 10
        ELSE LET text_lower == lower(text)
                 neg_count == Cardinality({w \in negative_words : contains(text_lower, w)})
                 pos_count == Cardinality({w \in positive_words : contains(text_lower, w)})
             IN  IF pos_count > neg_count THEN 9
                 ELSE IF neg_count > pos_count THEN 13
                 ELSE 10

\* _analyze_content_complexity, in tenths
_analyze_content_complexity(event) ==
    LET text == lower(event_text(event))
    IN  IF any_keyword(text, high_stress_keywords) THEN 14
        ELSE IF any_keyword(text, medium_stress_keywords) THEN 12
        ELSE IF any_keyword(text, low_stress_keywords) THEN 8
        ELSE 10

\* _analyze_recurring_pattern, in tenths
_analyze_recurring_pattern(event) ==
    LET text == lower(event_text(event))
    IN  IF any_keyword(text, recurring_keywords) THEN 9
        ELSE IF any_keyword(text, urgent_keywords) THEN 13
        ELSE 10

\* _calculate_lunch_penalty, in tenths
_calculate_lunch_penalty(event) ==
    LET hour == hour_of(event.start_time)
        minute == minute_of(event.start_time)
    IN  IF (hour = 11 /\ minute >= 30) \/ hour = 12 \/ (hour = 13 /\ minute <= 30)
        THEN 13
        ELSE 10

\* _calculate_meeting_type_difficulty, in thousandths
_calculate_meeting_type_difficulty(event, vader) ==
    LET participant_count == event.participants
        base_difficulty == IF participant_count <= 2 THEN 10
                           ELSE IF participant_count <= 5 THEN 12
                           ELSE 15
        participant_weight == Log2Milli(Max(participant_count, 2))
    IN  (base_difficulty * participant_weight * _analyze_sentiment(event, vader)
           * _analyze_content_complexity(event) * _analyze_recurring_pattern(event)
           * _calculate_lunch_penalty(event)) \div 100000

RECURSIVE total_duration_stress(_, _)
\* the loop of _calculate_base_meeting_stress: sum of duration * mtd, in thousandths
total_duration_stress(events, vader) ==
    IF events = << >> THEN 0
    ELSE duration_minutes(Head(events)) * _calculate_meeting_type_difficulty(Head(events), vader)
         + total_duration_stress(Tail(events), vader)

\* _calculate_base_meeting_stress, in milli
_calculate_base_meeting_stress(events, vader) ==
    alpha1 * Pow12Milli(Len(events))
    + (alpha2_centi * total_duration_stress(events, vader)) \div 100

\* timedelta.total_seconds() / 60 between the end of one meeting and the start of the next
gap_minutes(prev_meeting, meeting) == meeting.start_time - prev_meeting.end_time

\* the penalty a completed chain adds, in milli
chain_penalty(chain_length) ==
    IF chain_length >= 2 THEN alpha3 * Pow15Milli(chain_length) ELSE 0

RECURSIVE back_to_back_loop(_, _, _, _)
\* the loop of _calculate_back_to_back_penalty from index i on, with the penalty
\* so far and len(current_chain)
back_to_back_loop(meetings_sorted, i, penalty, chain_length) ==
    IF i > Len(meetings_sorted) THEN penalty + chain_penalty(chain_length)
    ELSE IF i = 1 THEN back_to_back_loop(meetings_sorted, 2, penalty, 1)
    ELSE IF gap_minutes(meetings_sorted[i - 1], meetings_sorted[i]) <= 10
    THEN back_to_back_loop(meetings_sorted, i + 1, penalty, chain_length + 1)
    ELSE back_to_back_loop(meetings_sorted, i + 1, penalty + chain_penalty(chain_length), 1)

\* _calculate_back_to_back_penalty, in milli
_calculate_back_to_back_penalty(meetings_sorted) ==
    back_to_back_loop(meetings_sorted, 1, 0, 0)

RECURSIVE clustering_loop(_, _)
clustering_loop(meetings_sorted, i) ==
    IF i > Len(meetings_sorted) THEN 0
    ELSE LET gap == gap_minutes(meetings_sorted[i - 1], meetings_sorted[i])
         IN  (IF 10 < gap /\ gap <= 30 THEN (alpha4 * 60 * 1000) \div gap ELSE 0)
             + clustering_loop(meetings_sorted, i + 1)

\* _calculate_clustering_stress, in milli
_calculate_clustering_stress(meetings_sorted) == clustering_loop(meetings_sorted, 2)

\* _get_required_recovery_time, in minutes
_get_required_recovery_time(meeting) ==
    LET participant_count == meeting.participants
        base_recovery == IF participant_count <= 2 THEN 5
                         ELSE IF participant_count <= 5 THEN 8
                         ELSE 12
    IN  base_recovery
        + (IF _analyze_content_complexity(meeting) >= 14 THEN 3 ELSE 0)
        + (IF _calculate_lunch_penalty(meeting) > 10 THEN 5 ELSE 0)

RECURSIVE recovery_loop(_, _)
recovery_loop(meetings_sorted, i) ==
    IF i > Len(meetings_sorted) THEN 0
    ELSE LET required_recovery == _get_required_recovery_time(meetings_sorted[i - 1])
             actual_gap == gap_minutes(meetings_sorted[i - 1], meetings_sorted[i])
         IN  (IF actual_gap < required_recovery
              THEN alpha5 * (required_recovery - actual_gap) * 1000
              ELSE 0)
             + recovery_loop(meetings_sorted, i + 1)

\* _calculate_recovery_deficit, in milli
_calculate_recovery_deficit(meetings_sorted) == recovery_loop(meetings_sorted, 2)

RECURSIVE sum_of(_, _)
\* sum(values[i:]) of a list of numbers (i from 1)
sum_of(values, i) == IF i > Len(values) THEN 0 ELSE values[i] + sum_of(values, i + 1)

\* _calculate_intensity_clustering, in milli: meetings_by_hour groups the events
\* by start_time.hour; each hour is visited once, at its first event
_calculate_intensity_clustering(events) ==
    LET hour(i) == hour_of(events[i].start_time)
        meetings_in_hour(h) == Cardinality({i \in 1..Len(events) : hour(i) = h})
        is_new_key(i) == \A j \in 1..(i - 1) : hour(j) # hour(i)
    IN  sum_of([i \in 1..Len(events) |->
                    IF is_new_key(i) /\ meetings_in_hour(hour(i)) >= 2
                    THEN alpha7 * meetings_in_hour(hour(i)) * meetings_in_hour(hour(i)) * 1000
                    ELSE 0], 1)

\* _get_circadian_multiplier, in tenths
_get_circadian_multiplier(hour) ==
    CASE hour \in {7, 8} -> 14
      [] hour \in {9, 10} -> 10
      [] hour \in {11, 12, 13} -> 13
      [] hour \in {14, 15, 16} -> 10
      [] hour \in {17, 18} -> 14
      [] hour \in {19, 20, 21} -> 16
      [] OTHER -> 10

\* _get_day_of_week_factor, in tenths
_get_day_of_week_factor(weekday) ==
    CASE weekday = 0 -> 12
      [] weekday = 4 -> 9
      [] OTHER -> 10

\* -------------------------------------------- scoring: calculate_daily_stress

\* The second positional argument of calculate_daily_stress as callers pass it:
\* None (the default), a float, or a datetime.date (app.py passes target_date).
NoneArg == [t |-> "None"]

FloatArg(v) == [t |-> "float", v |-> v]

DateArg(d) == [t |-> "date", v |-> d]

\* decay_factor = 0.7, in tenths
decay_factor_tenths == 7

\* _calculate_carryover_factor raises TypeError at `previous_day_stress / 100`
\* when the argument is a datetime.date
carryover_raises(previous_day_stress) == previous_day_stress.t = "date"

\* _calculate_carryover_factor for None or a float, in thousandths
_calculate_carryover_factor(previous_day_stress) ==
    IF previous_day_stress.t = "None" THEN 1000
    ELSE Min(1000 + (alpha6_centi * previous_day_stress.v * decay_factor_tenths) \div 100,
             1500)

\* _get_stress_level_and_recommendations on the unrounded score, in milli
_get_stress_level_and_recommendations(stress_score) ==
    IF stress_score <= 20000 THEN
        [level |-> "Low Stress",
         recommendations |->
            << "Great! Your meeting load is manageable.",
               "Consider using this light day to tackle focused work.",
               "Maybe offer to help colleagues with their workload." >>]
    ELSE IF stress_score <= 40000 THEN
        [level |-> "Moderate Stress",
         recommendations |->
            << "Your meeting load is moderate. Stay organized.",
               "Take short breaks between meetings when possible.",
               "Prepare meeting agendas to make sessions more efficient." >>]
    ELSE IF stress_score <= 60000 THEN
        [level |-> "Elevated Stress",
         recommendations |->
            << "Consider rescheduling non-critical meetings.",
               "Take 5-10 minute breaks between meetings.",
               "Practice deep breathing exercises between sessions.",
               "Stay hydrated and avoid caffeine overload." >>]
    ELSE IF stress_score <= 80000 THEN
        [level |-> "High Stress",
         recommendations |->
            << "Heavy meeting day detected. Prioritize ruthlessly.",
               "Cancel or delegate non-essential meetings.",
               "Block 15-minute breaks between back-to-back meetings.",
               "Consider declining lunch meetings to preserve energy.",
               "Prepare thoroughly to reduce in-meeting stress." >>]
    ELSE
        [level |-> "Critical Stress",
         recommendations |->
            << "CRITICAL: This schedule may lead to burnout.",
               "Immediately reschedule or cancel non-urgent meetings.",
               "Block recovery time after high-stress meetings.",
               "Consider working from home to reduce commute stress.",
               "Speak with your manager about workload management.",
               "Take micro-breaks (2-3 minutes) between every meeting." >>]

\* sorted(events, key=lambda m: m.start_time): a stable sort
RECURSIVE sorted_by_start(_)
sorted_by_start(events) ==
    IF events = << >> THEN << >>
    ELSE LET n == Len(events)
             front == sorted_by_start(SubSeq(events, 1, n - 1))
             last == events[n]
             \* `last` goes after every element whose key is not greater
             k == Cardinality({i \in 1..Len(front) : front[i].start_time <= last.start_time})
         IN  SubSeq(front, 1, k) \o <<last>> \o SubSeq(front, k + 1, Len(front))

\* round(x, 1) of a value in milli, in tenths
round1(x_milli) == (x_milli + 50) \div 100

\* _analyze_meetings
_analyze_meetings(events) ==
    \* `return {}`: the empty dict
    IF events = << >> THEN << >>
    ELSE
    LET total_duration == sum_of([i \in 1..Len(events) |-> duration_minutes(events[i])], 1)
        meetings_sorted == sorted_by_start(events)
        back_to_back_count ==
            Cardinality({i \in 2..Len(meetings_sorted) :
                gap_minutes(meetings_sorted[i - 1], meetings_sorted[i]) <= 10})
        lunch_meetings == {i \in 1..Len(events) : _calculate_lunch_penalty(events[i]) > 10}
        high_stress_meetings ==
            {i \in 1..Len(events) : _analyze_content_complexity(events[i]) >= 14}
        first == meetings_sorted[1].start_time
        last == meetings_sorted[Len(meetings_sorted)].end_time
    IN  [total_meetings |-> Len(events),
         \* round(total_duration / 60, 1), in tenths of an hour
         total_duration_hours |-> (total_duration + 3) \div 6,
         back_to_back_transitions |-> back_to_back_count,
         lunch_meetings |-> Cardinality(lunch_meetings),
         high_stress_meetings |-> Cardinality(high_stress_meetings),
         \* strftime('%H:%M')
         first_meeting |-> <<hour_of(first), minute_of(first)>>,
         last_meeting |-> <<hour_of(last), minute_of(last)>>,
         longest_meeting |->
            CHOOSE d \in {duration_minutes(events[i]) : i \in 1..Len(events)} :
                \A i \in 1..Len(events) : duration_minutes(events[i]) <= d]

\* the empty day given the level of the lowest score bucket
no_meetings_as_low_stress ==
    [daily_stress_score |-> 0,
     stress_level |-> "Low Stress",
     components |->
        [base_meeting_stress |-> 0,
         back_to_back_penalty |-> 0,
         clustering_stress |-> 0,
         recovery_deficit |-> 0,
         intensity_clustering |-> 0,
         circadian_factor |-> 100,
         carryover_factor |-> 100],
     recommendations |-> << "Great! Your meeting load is manageable." >>]

\* the result calculate_daily_stress returns for `not events`
no_meetings_result ==
    [daily_stress_score |-> 0,
     stress_level |-> "No Meetings",
     components |->
        [base_meeting_stress |-> 0,
         back_to_back_penalty |-> 0,
         clustering_stress |-> 0,
         recovery_deficit |-> 0,
         intensity_clustering |-> 0,
         circadian_factor |-> 100,
         carryover_factor |-> 100],
     recommendations |-> << "Great! No meetings scheduled for today." >>]

\* daily_stress with the cap at 100 left out
daily_stress_uncapped(raw_stress) == Max(0, raw_stress)

\* daily_stress = min(100, max(0, raw_stress)), in milli
daily_stress_of(raw_stress) == Min(100000, Max(0, raw_stress))

\* the circadian adjustment factor caf, in hundredths
circadian_adjustment(events) ==
    LET avg_hour == sum_of([i \in 1..Len(events) |-> hour_of(events[i].start_time)], 1)
                    \div Len(events)
        weekday == weekday_of(events[1].start_time)
    IN  _get_circadian_multiplier(avg_hour) * _get_day_of_week_factor(weekday)

\* the stress components and the circadian factor calculate_daily_stress
\* computes for a non-empty list (components in milli, caf in hundredths)
stress_components(events, vader) ==
    LET meetings_sorted == sorted_by_start(events)
    IN  [bms |-> _calculate_base_meeting_stress(events, vader),
         bbmp |-> _calculate_back_to_back_penalty(meetings_sorted),
         tcs |-> _calculate_clustering_stress(meetings_sorted),
         rda |-> _calculate_recovery_deficit(meetings_sorted),
         mic |-> _calculate_intensity_clustering(events),
         caf |-> circadian_adjustment(events)]

\* raw_stress = (bms + bbmp + tcs + rda + mic) * caf * cfc, in milli
raw_stress_from(c, cfc) ==
    MulDiv(MulDiv(c.bms + c.bbmp + c.tcs + c.rda + c.mic, c.caf, 100), cfc, 1000)

\* raw_stress of a non-empty list
raw_stress_of(events, previous_day_stress, vader) ==
    raw_stress_from(stress_components(events, vader),
                    _calculate_carryover_factor(previous_day_stress))

\* calculate_daily_stress(events, previous_day_stress) when VADER_AVAILABLE = vader:
\* the returned dict (scores in tenths, factors in hundredths), or what it raises
calculate_daily_stress(events, previous_day_stress, vader) ==
    IF events = << >> THEN no_meetings_result
    ELSE IF carryover_raises(previous_day_stress) THEN [raised |-> "TypeError"]
    ELSE
    LET c == stress_components(events, vader)
        cfc == _calculate_carryover_factor(previous_day_stress)
        daily_stress == daily_stress_of(raw_stress_from(c, cfc))
        level == _get_stress_level_and_recommendations(daily_stress)
    IN  [daily_stress_score |-> round1(daily_stress),
         stress_level |-> level.level,
         components |->
            [base_meeting_stress |-> round1(c.bms),
             back_to_back_penalty |-> round1(c.bbmp),
             clustering_stress |-> round1(c.tcs),
             recovery_deficit |-> round1(c.rda),
             intensity_clustering |-> round1(c.mic),
             circadian_factor |-> c.caf,
             \* round(cfc, 2)
             carryover_factor |-> (cfc + 5) \div 10],
         recommendations |-> level.recommendations,
         meeting_analysis |-> _analyze_meetings(events)]

\* ----------------------------------------------------------- raw calendar data

\* JSON values whose Python type the code tests or iterates are tagged: a list,
\* a str, an int.  An event object (a dict) is a record of the keys it has.
ListVal(seq) == [t |-> "list", v |-> seq]

StrVal(s) == [t |-> "str", v |-> s]

IntVal(n) == [t |-> "int", v |-> n]

\* A date-time string by its form: "YYYY-MM-DDTHH:MM:SS" (it holds a 'T'),
\* the bare date "YYYY-MM-DD", or a text no parser accepts.
DateTimeStr(day, hour, minute) ==
    [kind |-> "datetime", day |-> day, hour |-> hour, minute |-> minute]

DateStr(day) == [kind |-> "date", day |-> day]

TextStr == [kind |-> "text"]

\* the nested {dateTime: ...} / {date: ...} object of the provider schemas
TimeObject(key, str) ==
    IF key = "dateTime" THEN [kind |-> "object", dateTime |-> str]
    ELSE [kind |-> "object", date |-> str]

\* datetime.isoformat() of a naive datetime
isoformat(t) == DateTimeStr(date_of(t), hour_of(t), minute_of(t))

\* whether datetime.fromisoformat(s) raises ValueError
fromisoformat_raises(s) == s.kind \notin {"datetime", "date"}

\* datetime.fromisoformat(s) otherwise; a bare date gives midnight
fromisoformat(s) ==
    IF s.kind = "datetime" THEN At(s.day, s.hour, s.minute) ELSE At(s.day, 0, 0)

\* CalendarParser._parse_datetime raises ValueError: a str neither parser
\* accepts, or a value that is no str (dateutil raises TypeError, wrapped)
_parse_datetime_raises(dt_str) == dt_str.kind \notin {"datetime", "date"}

\* CalendarParser._parse_datetime(dt_str) otherwise: fromisoformat when the str
\* holds a 'T', dateutil's parse of a bare date (midnight) when it does not
_parse_datetime(dt_str) ==
    IF dt_str.kind = "datetime" THEN At(dt_str.day, dt_str.hour, dt_str.minute)
    ELSE At(dt_str.day, 0, 0)

\* dict.get(key, default)
get(d, key, default) == IF key \in DOMAIN d THEN d[key] ELSE default

\* str(hash(title + str(start_time))): some str the title and start determine
hash_id(title, start_time) == "hash:" \o ToString(<<title, start_time>>)

\* the keyword lists of CalendarEvent._determine_event_type, in the order tested

meeting_words ==
    { <<"m", "e", "e", "t", "i", "n", "g">>,
      <<"c", "a", "l", "l">>,
      <<"c", "o", "n", "f", "e", "r", "e", "n", "c", "e">>,
      <<"s", "t", "a", "n", "d", "u", "p">>,
      <<"s", "y", "n", "c">> }

interview_words ==
    { <<"i", "n", "t", "e", "r", "v", "i", "e", "w">>,
      <<"c", "a", "n", "d", "i", "d", "a", "t", "e">> }

training_words ==
    { <<"t", "r", "a", "i", "n", "i", "n", "g">>,
      <<"w", "o", "r", "k", "s", "h", "o", "p">>,
      <<"s", "e", "m", "i", "n", "a", "r">> }

break_words ==
    { <<"b", "r", "e", "a", "k">>,
      <<"l", "u", "n", "c", "h">>,
      <<"c", "o", "f", "f", "e", "e">> }

focus_words ==
    { <<"f", "o", "c", "u", "s">>,
      <<"d", "e", "e", "p", " ", "w", "o", "r", "k">>,
      <<"c", "o", "d", "i", "n", "g">> }

travel_words ==
    { <<"t", "r", "a", "v", "e", "l">>,
      <<"c", "o", "m", "m", "u", "t", "e">> }


\* CalendarEvent._determine_event_type(event_data)
_determine_event_type(event_data) ==
    LET title == lower(get(event_data, "summary", get(event_data, "subject", << >>)))
    IN  IF any_keyword(title, meeting_words) THEN "meeting"
        ELSE IF any_keyword(title, interview_words) THEN "interview"
        ELSE IF any_keyword(title, training_words) THEN "training"
        ELSE IF any_keyword(title, break_words) THEN "break"
        ELSE IF any_keyword(title, focus_words) THEN "focus_time"
        ELSE IF any_keyword(title, travel_words) THEN "travel"
        ELSE "other"

\* The fields of CalendarEvent kept here; location, attendees, organizer, the
\* flags, importance, status, reminder_minutes and categories are copied through
\* by every constructor and read by nothing below.
CalendarEvent(id, title, start_time, end_time, event_type, description, participants) ==
    [id |-> id, title |-> title, start_time |-> start_time, end_time |-> end_time,
     event_type |-> event_type, description |-> description,
     participants |-> participants]

Raised(exception) == [raised |-> exception]

\* CalendarParser._create_event_from_custom(event_data): the event, or what is raised
_create_event_from_custom(event_data) ==
    IF "start" \notin DOMAIN event_data THEN Raised("KeyError")
    ELSE IF _parse_datetime_raises(event_data.start) THEN Raised("ValueError")
    ELSE IF "end" \notin DOMAIN event_data THEN Raised("KeyError")
    ELSE IF _parse_datetime_raises(event_data.end) THEN Raised("ValueError")
    ELSE
    LET start_time == _parse_datetime(event_data.start)
        end_time == _parse_datetime(event_data.end)
        participants ==
            IF "attendees" \in DOMAIN event_data
            THEN IF event_data.attendees.t = "list" THEN Len(event_data.attendees.v)
                 ELSE IF event_data.attendees.t = "int" THEN event_data.attendees.v
                 ELSE 0
            ELSE IF "participants" \in DOMAIN event_data THEN event_data.participants
            ELSE 0
    IN  CalendarEvent(
            get(event_data, "id", hash_id(get(event_data, "title", << >>), start_time)),
            get(event_data, "title", get(event_data, "summary", TitleUntitled)),
            start_time,
            end_time,
            get(event_data, "type", get(event_data, "event_type", "other")),
            get(event_data, "description", << >>),
            participants)

\* the attendee count of the provider constructors, len(attendees_data); the
\* comprehension over it raises TypeError when attendees is an int
attendees_raise(event_data) ==
    "attendees" \in DOMAIN event_data /\ event_data.attendees.t # "list"

attendees_len(event_data) ==
    IF "attendees" \in DOMAIN event_data THEN Len(event_data.attendees.v) ELSE 0

\* CalendarEvent.from_google_calendar(event_data): the event, or what is raised
from_google_calendar(event_data) ==
    LET start_data == get(event_data, "start", [kind |-> "object"])
        end_data == get(event_data, "end", [kind |-> "object"])
        \* `'dateTime' in start_data`: a key of the object; a substring of a str,
        \* which no date-time string has
        has_dateTime == start_data.kind = "object" /\ "dateTime" \in DOMAIN start_data
        key == IF has_dateTime THEN "dateTime" ELSE "date"
    IN  \* start_data[key], end_data[key]: TypeError on a str, KeyError on an
        \* object without the key
        IF start_data.kind # "object" THEN Raised("TypeError")
        ELSE IF key \notin DOMAIN start_data THEN Raised("KeyError")
        ELSE IF fromisoformat_raises(start_data[key]) THEN Raised("ValueError")
        ELSE IF end_data.kind # "object" THEN Raised("TypeError")
        ELSE IF key \notin DOMAIN end_data THEN Raised("KeyError")
        ELSE IF fromisoformat_raises(end_data[key]) THEN Raised("ValueError")
        ELSE IF attendees_raise(event_data) THEN Raised("TypeError")
        ELSE CalendarEvent(
                get(event_data, "id", ""),
                get(event_data, "summary", TitleUntitled),
                fromisoformat(start_data[key]),
                fromisoformat(end_data[key]),
                _determine_event_type(event_data),
                get(event_data, "description", << >>),
                attendees_len(event_data))

\* CalendarEvent.from_outlook_calendar(event_data): the event, or what is raised
from_outlook_calendar(event_data) ==
    LET start_data == get(event_data, "start", [kind |-> "object"])
        end_data == get(event_data, "end", [kind |-> "object"])
    IN  IF start_data.kind # "object" THEN Raised("TypeError")
        ELSE IF "dateTime" \notin DOMAIN start_data THEN Raised("KeyError")
        ELSE IF fromisoformat_raises(start_data.dateTime) THEN Raised("ValueError")
        ELSE IF end_data.kind # "object" THEN Raised("TypeError")
        ELSE IF "dateTime" \notin DOMAIN end_data THEN Raised("KeyError")
        ELSE IF fromisoformat_raises(end_data.dateTime) THEN Raised("ValueError")
        ELSE IF attendees_raise(event_data) THEN Raised("TypeError")
        ELSE CalendarEvent(
                get(event_data, "id", ""),
                get(event_data, "subject", TitleUntitled),
                fromisoformat(start_data.dateTime),
                fromisoformat(end_data.dateTime),
                _determine_event_type(event_data),
                \* event_data.get('body', {}).get('content', '')
                get(get(event_data, "body", [kind |-> "object"]), "content", << >>),
                attendees_len(event_data))

\* ----------------------------------------------------------- CalendarParser

\* `key in calendar_data`: a key of a dict; an element of a bare list, whose
\* elements are event objects, never the str
has_key(calendar_data, key) == calendar_data.t = "dict" /\ key \in DOMAIN calendar_data.v

\* `key in calendar_data and isinstance(calendar_data[key], list)`
has_list(calendar_data, key) ==
    has_key(calendar_data, key) /\ calendar_data.v[key].t = "list"

\* a detection that tests "value" before "items"
_detect_format_value_first(calendar_data) ==
    IF has_list(calendar_data, "value") THEN "outlook"
    ELSE IF has_list(calendar_data, "items") THEN "google"
    ELSE IF has_list(calendar_data, "events") THEN "custom"
    ELSE IF calendar_data.t = "list" THEN "custom"
    ELSE "unknown"

\* a detection that falls back to the generic schema
_detect_format_or_custom(calendar_data) ==
    IF has_list(calendar_data, "items") THEN "google"
    ELSE IF has_list(calendar_data, "value") THEN "outlook"
    ELSE "custom"

\* CalendarParser._detect_format
_detect_format(calendar_data) ==
    IF has_list(calendar_data, "items") THEN "google"
    ELSE IF has_list(calendar_data, "value") THEN "outlook"
    ELSE IF has_list(calendar_data, "events") THEN "custom"
    ELSE IF calendar_data.t = "list" THEN "custom"
    ELSE "unknown"

\* the constructor each parser's loop calls
create_event(calendar_format, item) ==
    CASE calendar_format = "google" -> from_google_calendar(item)
      [] calendar_format = "outlook" -> from_outlook_calendar(item)
      [] calendar_format = "custom" -> _create_event_from_custom(item)

RECURSIVE parse_items_until_error(_, _, _)
\* a loop that stops at the first item whose constructor raises
parse_items_until_error(items, calendar_format, parsed) ==
    IF items = << >> THEN parsed
    ELSE LET event == create_event(calendar_format, Head(items))
         IN  IF "raised" \in DOMAIN event
             THEN parsed
             ELSE parse_items_until_error(Tail(items), calendar_format, Append(parsed, event))

RECURSIVE parse_items(_, _, _)
\* The loop the three parsers share, with the events appended so far: an item
\* whose constructor raises is skipped (`except Exception: ... continue`).
parse_items(items, calendar_format, parsed) ==
    IF items = << >> THEN parsed
    ELSE LET event == create_event(calendar_format, Head(items))
         IN  IF "raised" \in DOMAIN event
             THEN parse_items(Tail(items), calendar_format, parsed)
             ELSE parse_items(Tail(items), calendar_format, Append(parsed, event))

\* the items a loop iterates over: iterating a str yields its characters, each
\* of which the constructor rejects
iter_items(value) == IF value.t = "list" THEN value.v ELSE << >>

Returned(value) == [returned |-> value]

\* CalendarParser._parse_google_calendar
_parse_google_calendar(calendar_data) ==
    parse_items(iter_items(get(calendar_data.v, "items", ListVal(<< >>))), "google", << >>)

\* CalendarParser._parse_outlook_calendar
_parse_outlook_calendar(calendar_data) ==
    parse_items(iter_items(get(calendar_data.v, "value", ListVal(<< >>))), "outlook", << >>)

\* CalendarParser._parse_custom_calendar: the events returned, or what is raised
_parse_custom_calendar(calendar_data) ==
    IF has_key(calendar_data, "events")
    THEN Returned(parse_items(iter_items(calendar_data.v.events), "custom", << >>))
    ELSE IF calendar_data.t = "list"
    THEN Returned(parse_items(calendar_data.v, "custom", << >>))
    ELSE Raised("ValueError: Invalid custom calendar format")

\* CalendarParser.parse_calendar: the events returned, or what is raised
parse_calendar(calendar_data) ==
    LET calendar_format == _detect_format(calendar_data)
    IN  IF calendar_format = "google" THEN Returned(_parse_google_calendar(calendar_data))
        ELSE IF calendar_format = "outlook"
        THEN Returned(_parse_outlook_calendar(calendar_data))
        ELSE IF calendar_format = "custom" THEN _parse_custom_calendar(calendar_data)
        ELSE Raised("ValueError: Unsupported calendar format detected")

\* CalendarEvent.to_dict, for the fields kept (and without the derived
\* is_meeting and stress_indicators)
to_dict(event) ==
    [id |-> event.id,
     title |-> event.title,
     start_time |-> isoformat(event.start_time),
     end_time |-> isoformat(event.end_time),
     event_type |-> event.event_type,
     description |-> event.description,
     participants |-> event.participants,
     duration_minutes |-> duration_minutes(event)]

\* CalendarParser.export_events_to_json(events) at the clock reading `now`:
\* the JSON text, held as the value it encodes
export_events_to_json(event_list, now) ==
    [json |->
        [t |-> "dict",
         v |-> [events |-> ListVal([i \in 1..Len(event_list) |-> to_dict(event_list[i])]),
                metadata |-> [total_events |-> Len(event_list),
                              exported_at |-> isoformat(now),
                              format |-> "mindsync_custom"]]]]

\* json.loads(text)
json_loads(text) == text.json

\* An error string of the validator: f"Event {index}: {message}" is held as
\* [index, message], a string about the whole payload as [message].
EventError(index, message) == [index |-> index, message |-> message]

\* CalendarParser._validate_event(event, index)
_validate_event(event, index) ==
    (IF event.title = << >> THEN << EventError(index, "Missing title") >> ELSE << >>)
    \o (IF event.start_time >= event.end_time
        THEN << EventError(index, "Start time must be before end time") >> ELSE << >>)
    \o (IF duration_minutes(event) <= 0
        THEN << EventError(index, "Invalid duration") >> ELSE << >>)
    \o (IF event.participants < 0
        THEN << EventError(index, "Invalid participant count") >> ELSE << >>)

RECURSIVE validate_events(_, _)
\* `for i, event in enumerate(events)`: the errors of events i.. (i from 0)
validate_events(event_list, i) ==
    IF i >= Len(event_list) THEN << >>
    ELSE _validate_event(event_list[i + 1], i) \o validate_events(event_list, i + 1)

\* CalendarParser.validate_calendar_data: the list of error strings
validate_calendar_data(calendar_data) ==
    IF calendar_data.t \notin {"dict", "list"}
    THEN << [message |-> "Calendar data must be a dictionary or list"] >>
    ELSE IF _detect_format(calendar_data) = "unknown"
    THEN << [message |-> "Unknown calendar format"] >>
    ELSE LET out == parse_calendar(calendar_data)
         IN  IF "raised" \in DOMAIN out
             THEN << [message |-> "Error parsing calendar: " \o out.raised] >>
             ELSE (IF out.returned = << >>
                   THEN << [message |-> "No valid events found in calendar data"] >>
                   ELSE << >>)
                  \o validate_events(out.returned, 0)

\* --------------------------------------------------------- SuggestionEngine

\* self.activities[break_type]: the durations listed, in the dict's order, and
\* the activities of each
activity_durations(break_type) ==
    IF break_type = "mental" THEN <<5, 10, 15>>
    ELSE IF break_type = "mindfulness" THEN <<2, 5, 10, 15>>
    ELSE <<3, 5, 10, 15>>

activities(break_type, duration) ==
    CASE break_type = "mindfulness" ->
            (CASE duration = 2 -> << "Take 3 deep breaths", "Quick gratitude moment" >>
               [] duration = 5 -> << "5-minute meditation", "Mindful breathing", "Body scan" >>
               [] duration = 10 ->
                    << "Guided meditation", "Mindfulness practice", "Stress visualization" >>
               [] duration = 15 ->
                    << "Extended meditation", "Progressive relaxation", "Mindful walking" >>)
      [] break_type = "movement" ->
            (CASE duration = 3 -> << "Neck rolls", "Shoulder shrugs", "Ankle circles" >>
               [] duration = 5 ->
                    << "Desk stretches", "Walk to water cooler", "Quick posture reset" >>
               [] duration = 10 ->
                    << "Walk around building", "Stair climbing", "Full body stretch" >>
               [] duration = 15 -> << "Outdoor walk", "Yoga poses", "Exercise routine" >>)
      [] break_type = "recovery" ->
            (CASE duration = 3 -> << "Hydrate", "Eye rest (20-20-20)", "Deep breath" >>
               [] duration = 5 -> << "Healthy snack", "Posture check", "Workspace tidy" >>
               [] duration = 10 -> << "Complete break", "Fresh air", "Mental reset" >>
               [] duration = 15 ->
                    << "Extended recovery", "Relaxation time", "Rest break" >>)
      [] break_type = "mental" ->
            (CASE duration = 5 -> << "Review priorities", "Quick journaling", "Email triage" >>
               [] duration = 10 -> << "Task planning", "Note organization", "Goal check" >>
               [] duration = 15 ->
                    << "Weekly review", "Strategic thinking", "Project planning" >>)

\* random.choice(list) when the generator yields the raw draw r
random_choice(list, r) == list[(r % Len(list)) + 1]

RECURSIVE all_activities(_, _)
\* the activities of every duration of a type from the i-th on, concatenated
all_activities(break_type, i) ==
    LET durations == activity_durations(break_type)
    IN  IF i > Len(durations) THEN << >>
        ELSE activities(break_type, durations[i]) \o all_activities(break_type, i + 1)

\* SuggestionEngine._get_safe_activity with the raw draw r: a duration the
\* type does not list (KeyError) falls back to any activity of the type
_get_safe_activity(break_type, duration, r) ==
    IF \E i \in 1..Len(activity_durations(break_type)) :
            activity_durations(break_type)[i] = duration
    THEN random_choice(activities(break_type, duration), r)
    ELSE random_choice(all_activities(break_type, 1), r)

\* the title keywords _get_break_reason tests
review_keywords ==
    { <<"r", "e", "v", "i", "e", "w">>,
      <<"p", "e", "r", "f", "o", "r", "m", "a", "n", "c", "e">> }

\* SuggestionEngine._get_break_reason
_get_break_reason(current_meeting, next_meeting, gap) ==
    IF gap <= 5 THEN "Short gap - quick mental reset"
    ELSE IF gap <= 10 THEN "Back-to-back meetings - mental reset needed"
    ELSE IF duration_minutes(current_meeting) > 90
    THEN "Long meeting completed - physical movement recommended"
    ELSE IF current_meeting.participants > 8
    THEN "Large group meeting - recovery time beneficial"
    ELSE IF any_keyword(lower(current_meeting.title), review_keywords)
    THEN "High-stress meeting - stress relief recommended"
    ELSE "Opportunity for wellbeing break"

\* strftime('%H:%M'): the hour and the minute of the day
strftime_HM(t) == <<hour_of(t), minute_of(t)>>

\* a break suggestion dict
BreakSuggestion(time, duration, priority, type, activity, reason) ==
    [time |-> time, duration |-> duration, priority |-> priority, type |-> type,
     activity |-> activity, reason |-> reason]

\* a pair loop suggestion whose priority is 3 in every tier
pair_break_one_priority(current_meeting, next_meeting, r) ==
    LET gap == gap_minutes(current_meeting, next_meeting)
        duration == IF gap >= 15 THEN 10 ELSE IF gap >= 10 THEN 5 ELSE IF gap >= 5 THEN 3 ELSE 2
        break_type ==
            IF gap >= 15 THEN "movement" ELSE IF gap >= 10 THEN "recovery" ELSE "mindfulness"
    IN  BreakSuggestion(
            strftime_HM(current_meeting.end_time), duration, 3, break_type,
            _get_safe_activity(break_type, duration, r),
            _get_break_reason(current_meeting, next_meeting, gap))

\* the suggestion of the pair loop for the gap after current_meeting
pair_break(current_meeting, next_meeting, r) ==
    LET gap == gap_minutes(current_meeting, next_meeting)
        duration == IF gap >= 15 THEN 10 ELSE IF gap >= 10 THEN 5 ELSE IF gap >= 5 THEN 3 ELSE 2
        priority == IF gap >= 15 THEN 4 ELSE IF gap >= 5 THEN 3 ELSE 2
        break_type ==
            IF gap >= 15 THEN "movement" ELSE IF gap >= 10 THEN "recovery" ELSE "mindfulness"
    IN  BreakSuggestion(
            strftime_HM(current_meeting.end_time), duration, priority, break_type,
            _get_safe_activity(break_type, duration, r),
            _get_break_reason(current_meeting, next_meeting, gap))

RECURSIVE pair_breaks_from_5(_, _, _)
\* a pair loop that suggests a break only for gaps of 5 minutes and more
pair_breaks_from_5(events_sorted, i, r) ==
    IF i >= Len(events_sorted) THEN << >>
    ELSE (IF gap_minutes(events_sorted[i], events_sorted[i + 1]) >= 5
          THEN << pair_break(events_sorted[i], events_sorted[i + 1], r) >>
          ELSE << >>)
         \o pair_breaks_from_5(events_sorted, i + 1, r)

RECURSIVE pair_breaks(_, _, _)
\* `for i in range(len(events_sorted) - 1)`: the suggestions of pairs i.. ;
\* a pair is suggested a break when its gap is at least 2 minutes
pair_breaks(events_sorted, i, r) ==
    IF i >= Len(events_sorted) THEN << >>
    ELSE (IF gap_minutes(events_sorted[i], events_sorted[i + 1]) >= 2
          THEN << pair_break(events_sorted[i], events_sorted[i + 1], r) >>
          ELSE << >>)
         \o pair_breaks(events_sorted, i + 1, r)

RECURSIVE longest_gap_loop_last_tie(_, _, _, _)
\* a loop that keeps the last of several longest gaps
longest_gap_loop_last_tie(events_sorted, i, longest_gap, longest_gap_pair) ==
    IF i >= Len(events_sorted) THEN [gap |-> longest_gap, pair |-> longest_gap_pair]
    ELSE LET gap == gap_minutes(events_sorted[i], events_sorted[i + 1])
         IN  IF gap >= longest_gap
             THEN longest_gap_loop_last_tie(events_sorted, i + 1, gap, i)
             ELSE longest_gap_loop_last_tie(
                    events_sorted, i + 1, longest_gap, longest_gap_pair)

RECURSIVE longest_gap_loop(_, _, _, _)
\* the loop of CASE 3 from pair i on: [gap, index of the pair] of the first
\* longest gap, index 0 while no gap exceeds 0
longest_gap_loop(events_sorted, i, longest_gap, longest_gap_pair) ==
    IF i >= Len(events_sorted) THEN [gap |-> longest_gap, pair |-> longest_gap_pair]
    ELSE LET gap == gap_minutes(events_sorted[i], events_sorted[i + 1])
         IN  IF gap > longest_gap
             THEN longest_gap_loop(events_sorted, i + 1, gap, i)
             ELSE longest_gap_loop(events_sorted, i + 1, longest_gap, longest_gap_pair)

\* CASE 3: the extended recovery break of a day of 4 or more meetings
extended_break(events_sorted) ==
    LET longest == longest_gap_loop(events_sorted, 1, 0, 0)
    IN  IF Len(events_sorted) >= 4 /\ longest.gap >= 30 /\ longest.pair # 0
        THEN << BreakSuggestion(
                    strftime_HM(events_sorted[longest.pair].end_time), 20, 5, "recovery",
                    "Extended recovery break - walk outside",
                    "Heavy meeting day - extended recovery needed") >>
        ELSE << >>

RECURSIVE sorted_by_priority(_)
\* sorted(suggestions, key=priority, reverse=True): stable, highest first
sorted_by_priority(suggestions) ==
    IF suggestions = << >> THEN << >>
    ELSE LET n == Len(suggestions)
             front == sorted_by_priority(SubSeq(suggestions, 1, n - 1))
             last == suggestions[n]
             k == Cardinality({i \in 1..Len(front) : front[i].priority >= last.priority})
         IN  SubSeq(front, 1, k) \o <<last>> \o SubSeq(front, k + 1, Len(front))

\* SuggestionEngine._find_break_opportunities(events_sorted, stress_analysis)
\* with the raw draw r; stress_analysis is not read
_find_break_opportunities(events_sorted, r) ==
    IF events_sorted = << >> THEN << >>
    ELSE
    LET first_meeting == events_sorted[1]
        last_meeting == events_sorted[Len(events_sorted)]
        single ==
            (IF hour_of(first_meeting.start_time) >= 10
             THEN << BreakSuggestion(
                        strftime_HM(first_meeting.start_time - 30), 10, 3, "preparation",
                        "Meeting preparation and mindfulness",
                        "Prepare mentally for upcoming meeting") >>
             ELSE << >>)
            \o (IF hour_of(first_meeting.end_time) < 18
                THEN << BreakSuggestion(
                            strftime_HM(first_meeting.end_time), 15, 4, "recovery",
                            "Post-meeting decompression walk",
                            "Recovery time after meeting") >>
                ELSE << >>)
        multiple ==
            (IF hour_of(first_meeting.start_time) >= 10
             THEN << BreakSuggestion(
                        strftime_HM(first_meeting.start_time - 15), 10, 3, "preparation",
                        "Morning preparation and focus setting",
                        "Prepare for the day ahead") >>
             ELSE << >>)
            \o pair_breaks(events_sorted, 1, r)
            \o (IF hour_of(last_meeting.end_time) < 18
                THEN << BreakSuggestion(
                            strftime_HM(last_meeting.end_time), 15, 4, "recovery",
                            "End-of-meetings decompression",
                            "Transition back to focused work") >>
                ELSE << >>)
    IN  sorted_by_priority(
            (IF Len(events_sorted) = 1 THEN single ELSE multiple)
            \o extended_break(events_sorted))

\* the tips of _generate_optimization_tips, in the order its rules append them
TipBuffers == "Consider adding 15-minute buffers between consecutive meetings"

TipLunch == "Protect your lunch hour - avoid scheduling meetings 1-2 PM"

TipOverload == "Meeting overload detected - consider rescheduling non-critical meetings"

TipLongMeetings == "Break long meetings into shorter sessions with breaks"

\* SuggestionEngine._generate_optimization_tips(stress_analysis, events); the
\* score and the components of stress_analysis are in tenths
_generate_optimization_tips(stress_analysis, events) ==
    LET is_analysis == "daily_stress_score" \in DOMAIN stress_analysis
        components ==
            IF is_analysis /\ "components" \in DOMAIN stress_analysis
            THEN stress_analysis.components ELSE [none |-> 0]
        stress_score == IF is_analysis THEN stress_analysis.daily_stress_score ELSE 0
        meeting_count == Len(events)
        tips ==
            (IF get(components, "back_to_back_penalty", 0) > 200 THEN <<TipBuffers>> ELSE << >>)
            \o (IF get(components, "lunch_disruption_penalty", 0) > 0
                THEN <<TipLunch>> ELSE << >>)
            \o (IF get(components, "overload_penalty", 0) > 0 THEN <<TipOverload>> ELSE << >>)
            \o (IF get(components, "long_meeting_penalty", 0) > 0
                THEN <<TipLongMeetings>> ELSE << >>)
            \o (IF stress_score > 600
                THEN << "Prepare meeting agendas in advance to reduce stress",
                        "Set hydration reminders throughout the day" >>
                ELSE << >>)
            \o (IF stress_score > 400
                THEN << "Consider starting the day with 5 minutes of mindfulness" >>
                ELSE << >>)
            \o (IF stress_score <= 250
                THEN << "Great schedule! Use this energy for creative or strategic work" >>
                ELSE << >>)
            \o (IF meeting_count >= 5
                THEN << "Use 'Do Not Disturb' between meetings to maintain focus" >>
                ELSE IF meeting_count = 1
                THEN << "Single meeting day - perfect for deep work blocks" >>
                ELSE IF meeting_count = 0
                THEN << "No meetings today. Great for focused work!" >>
                ELSE << >>)
    IN  SubSeq(tips, 1, Min(5, Len(tips)))

RECURSIVE sorted_by_time(_)
\* sorted(plan, key=time): stable; 'HH:MM' strings order as hour and minute do
sorted_by_time(plan) ==
    IF plan = << >> THEN << >>
    ELSE LET n == Len(plan)
             front == sorted_by_time(SubSeq(plan, 1, n - 1))
             last == plan[n]
             key(entry) == entry.time[1] * 60 + entry.time[2]
             k == Cardinality({i \in 1..Len(front) : key(front[i]) <= key(last)})
         IN  SubSeq(front, 1, k) \o <<last>> \o SubSeq(front, k + 1, Len(front))

\* the plan entry of a break suggestion: f"{activity} ({duration} min)"
plan_break(suggestion) ==
    [time |-> suggestion.time,
     activity |-> suggestion.activity \o " (" \o ToString(suggestion.duration) \o " min)",
     type |-> "break"]

\* SuggestionEngine._create_daily_plan(events_sorted, stress_analysis) with the
\* raw draw r of its own _find_break_opportunities call
_create_daily_plan(events_sorted, r) ==
    IF events_sorted = << >>
    THEN << [time |-> <<9, 0>>, activity |-> "Start your productive day!", type |-> "focus"] >>
    ELSE
    LET first_meeting == events_sorted[1]
        last_meeting == events_sorted[Len(events_sorted)]
        break_suggestions == _find_break_opportunities(events_sorted, r)
        top == SubSeq(break_suggestions, 1, Min(3, Len(break_suggestions)))
    IN  sorted_by_time(
            (IF hour_of(first_meeting.start_time) >= 9
             THEN << [time |-> <<8, 30>>,
                      activity |-> "Morning preparation - review agenda, set intentions",
                      type |-> "preparation"] >>
             ELSE << >>)
            \o [i \in 1..Len(top) |-> plan_break(top[i])]
            \o << [time |-> strftime_HM(last_meeting.end_time + 30),
                   activity |-> "Day wrap-up - review accomplishments, plan tomorrow",
                   type |-> "closure"] >>)

\* SuggestionEngine._create_summary
_create_summary(break_suggestions, optimization_tips) ==
    LET total_breaks == Len(break_suggestions)
        high_priority_breaks ==
            Cardinality({i \in 1..total_breaks : break_suggestions[i].priority >= 4})
    IN  IF total_breaks = 0 THEN "No break opportunities found in schedule."
        ELSE "Found " \o ToString(total_breaks) \o " break opportunities"
             \o (IF high_priority_breaks > 0
                 THEN " (" \o ToString(high_priority_breaks) \o " high priority)" ELSE "")
             \o ". " \o ToString(Len(optimization_tips)) \o " optimization tips available."

\* SuggestionEngine.generate_suggestions(events, stress_analysis); r1 and r2
\* are the raw draws of its two _find_break_opportunities calls
generate_suggestions(events, stress_analysis, r1, r2) ==
    IF events = << >>
    THEN [break_suggestions |-> << >>,
          optimization_tips |-> << "Great! No meetings scheduled. Focus on deep work." >>,
          daily_plan |-> << >>,
          summary |-> "No meetings scheduled."]
    ELSE
    LET events_sorted == sorted_by_start(events)
        break_suggestions == _find_break_opportunities(events_sorted, r1)
        optimization_tips == _generate_optimization_tips(stress_analysis, events)
    IN  [break_suggestions |-> break_suggestions,
         optimization_tips |-> optimization_tips,
         daily_plan |-> _create_daily_plan(events_sorted, r2),
         summary |-> _create_summary(break_suggestions, optimization_tips)]

\* emergency suggestions without the critical branch
get_emergency_suggestions_no_critical(stress_score) ==
    IF stress_score >= 500
    THEN << "Take a 5-minute break before your next meeting",
            "Prepare agendas to make meetings more efficient",
            "Consider declining optional meetings today" >>
    ELSE << >>

\* SuggestionEngine.get_emergency_suggestions(stress_score), the score in tenths
get_emergency_suggestions(stress_score) ==
    IF stress_score >= 750
    THEN << "IMMEDIATE: Take 10 deep breaths right now",
            "Cancel or reschedule non-critical meetings",
            "Block 15-minute recovery breaks in your calendar" >>
    ELSE IF stress_score >= 500
    THEN << "Take a 5-minute break before your next meeting",
            "Prepare agendas to make meetings more efficient",
            "Consider declining optional meetings today" >>
    ELSE << >>

\* ------------------------------------------------------------------- inputs

\* CalendarEvent(id, title, start_time, end_time, participants) with the
\* description '' and the event_type 'other' the parser's defaults give
Event(id, title, start_time, end_time, participants) ==
    CalendarEvent(id, title, start_time, end_time, "other", << >>, participants)

\* A working week's events: plain and keyword-bearing titles, 1 to 8
\* participants, gaps of 5 and 15 minutes, events in the 13:00-14:00 window,
\* two of them starting at 13:00, two weekdays.
WeekPool ==
    { Event("e1", TitleWork, At(0, 9, 0), At(0, 9, 30), 2),
      Event("e2", TitleTeamSync, At(0, 9, 35), At(0, 10, 35), 4),
      Event("e3", TitleBudgetCrisisReview, At(0, 13, 15), At(0, 14, 15), 8),
      Event("e4", TitleLunch, At(0, 13, 0), At(0, 13, 30), 1),
      Event("e5", TitleFunSocial, At(0, 10, 50), At(0, 11, 20), 2),
      Event("e6", TitleWork, At(1, 9, 0), At(1, 9, 30), 3),
      Event("e7", TitleWork, At(0, 13, 0), At(0, 13, 40), 2) }

\* The arguments callers pass second: the default, floats (in range, and
\* negative), and the target date of app.py's pages.
WeekArgs == { NoneArg, FloatArg(100), FloatArg(-800), DateArg(0) }

\* A day of five half-hour meetings back to back from 09:00, and a five-minute
\* meeting that lies inside the first one.
ChainPool ==
    { Event("c1", TitleWork, At(0, 9, 0), At(0, 9, 30), 2),
      Event("c2", TitleWork, At(0, 9, 30), At(0, 10, 0), 2),
      Event("c3", TitleWork, At(0, 10, 0), At(0, 10, 30), 2),
      Event("c4", TitleWork, At(0, 10, 30), At(0, 11, 0), 2),
      Event("c5", TitleWork, At(0, 11, 0), At(0, 11, 30), 2),
      Event("m", TitleWork, At(0, 9, 5), At(0, 9, 10), 2) }

\* Longest list assembled from ChainPool
MaxChain == 6

\* Raw event objects: of the generic schema (whole, with a title that names
\* a category, with defaults only, without a start, with an unparseable end,
\* ending before it starts) and of the two provider schemas (timed and
\* all-day).
ItemPool ==
    { [id |-> "a", title |-> TitleWork, start |-> DateTimeStr(0, 9, 0),
       end |-> DateTimeStr(0, 9, 30), attendees |-> IntVal(2)],
      [id |-> "e", title |-> TitleTeamSync, start |-> DateTimeStr(0, 16, 0),
       end |-> DateTimeStr(0, 16, 30), attendees |-> IntVal(4)],
      [start |-> DateTimeStr(0, 10, 0), end |-> DateStr(1)],
      [id |-> "b", title |-> TitleLunch, end |-> DateTimeStr(0, 13, 30)],
      [id |-> "c", title |-> TitleWork, start |-> DateTimeStr(0, 11, 0), end |-> TextStr],
      [id |-> "d", title |-> TitleWork, start |-> DateTimeStr(0, 15, 0),
       end |-> DateTimeStr(0, 14, 0), participants |-> -1],
      [id |-> "g", summary |-> TitleTeamSync,
       start |-> TimeObject("dateTime", DateTimeStr(0, 9, 35)),
       end |-> TimeObject("dateTime", DateTimeStr(0, 10, 35)),
       attendees |-> ListVal(<< [email |-> "x@example.org"], [email |-> "y@example.org"] >>)],
      [id |-> "h", summary |-> TitleLunch,
       start |-> TimeObject("date", DateStr(0)), end |-> TimeObject("date", DateStr(1))],
      [id |-> "o", subject |-> TitleBudgetCrisisReview,
       start |-> TimeObject("dateTime", DateTimeStr(0, 13, 15)),
       end |-> TimeObject("dateTime", DateTimeStr(0, 14, 15)),
       body |-> [kind |-> "object", content |-> TitleWork]] }

\* Longest raw item list a payload is built around
MaxItems == 2

\* Top-level shapes of a payload built around an item list
Shapes ==
    { "items", "value", "events", "list", "items+events", "items+value+events",
      "value+events", "other", "items:str", "events:str" }

\* the payload of a shape
Payload(shape, items) ==
    CASE shape = "items" -> [t |-> "dict", v |-> [items |-> ListVal(items)]]
      [] shape = "value" -> [t |-> "dict", v |-> [value |-> ListVal(items)]]
      [] shape = "events" -> [t |-> "dict", v |-> [events |-> ListVal(items)]]
      [] shape = "list" -> [t |-> "list", v |-> items]
      [] shape = "items+events" ->
            [t |-> "dict", v |-> [items |-> ListVal(items), events |-> ListVal(<< >>)]]
      [] shape = "items+value+events" ->
            [t |-> "dict",
             v |-> [items |-> ListVal(items), value |-> ListVal(items),
                    events |-> ListVal(items)]]
      [] shape = "value+events" ->
            [t |-> "dict", v |-> [value |-> ListVal(items), events |-> ListVal(items)]]
      [] shape = "other" -> [t |-> "dict", v |-> [data |-> ListVal(items)]]
      [] shape = "items:str" -> [t |-> "dict", v |-> [items |-> StrVal("n/a")]]
      [] shape = "events:str" -> [t |-> "dict", v |-> [events |-> StrVal("n/a")]]

TitlePerformanceReview ==
    <<"P", "e", "r", "f", "o", "r", "m", "a", "n", "c", "e", " ", "R", "e", "v", "i", "e", "w">>

\* A Monday for the suggestion engine: gaps of 12, 3, 7 and 1 minutes between
\* neighbours and of half an hour and more between the others (42 minutes
\* both after s1 and after s4), a meeting of more than 90 minutes, one of
\* more than 5 participants before a gap, one across the 13:00-14:00 window
\* and one that starts and ends within another.
SuggestPool ==
    { Event("s1", TitleWork, At(0, 9, 0), At(0, 9, 21), 2),
      Event("s2", TitleWork, At(0, 9, 33), At(0, 10, 0), 2),
      Event("s3", TitleTeamSync, At(0, 10, 3), At(0, 10, 25), 6),
      Event("s4", TitlePerformanceReview, At(0, 10, 32), At(0, 13, 14), 3),
      Event("s5", TitleBudgetCrisisReview, At(0, 13, 15), At(0, 14, 45), 8),
      Event("s6", TitleWork, At(0, 13, 56), At(0, 14, 5), 2) }

\* Longest list assembled from SuggestPool
MaxDay == 4

\* The raw draws of the random generator explored: within one
\* _find_break_opportunities call every random.choice sees the same draw
MaxDraw == 2

Draws == 0..(MaxDraw - 1)

\* The clock readings of an export
Clock == { At(2, 8, 0), At(2, 8, 1) }

\* -------------------------------------------------------------------- state

VARIABLES
    inputs,         \* what the caller draws events from: [pool, max_events, args]
    vader,          \* VADER_AVAILABLE: whether the import of vaderSentiment succeeded
    events,         \* the event list held (st.session_state.parsed_events)
    result,         \* the outcome of the last calculate_daily_stress call, made on `events`
    items,          \* the raw item list a payload is being built around
    calendar_data,  \* the payload held (st.session_state.calendar_data)
    parsed,         \* the outcome of the last parse_calendar(calendar_data)
    exported,       \* the text export_events_to_json(events) returned last
    reparsed,       \* the outcome of parse_calendar on the exported text
    validated,      \* the outcome of the last validate_calendar_data(calendar_data)
    suggestions,    \* the outcome of the last generate_suggestions(events, result)
    emergency,      \* the outcome of the last get_emergency_suggestions(score)
    session         \* the rest of st.session_state: authenticated, username,
                    \* calendar_provider and google_credentials (None when absent)

scoring_vars == <<inputs, vader, result>>

parsing_vars == <<items, calendar_data, parsed, exported, reparsed, validated>>

suggestion_vars == <<suggestions, emergency>>

vars ==
    <<inputs, vader, events, result, items, calendar_data, parsed, exported, reparsed,
      validated, suggestions, emergency, session>>

NoCall == [status |-> "none"]

None == [t |-> "None"]

\* the outcome of a call: what it returned or what it raised
Outcome(out) ==
    IF "raised" \in DOMAIN out
    THEN [status |-> "raised", value |-> out.raised]
    ELSE [status |-> "returned", value |-> out.returned]

\* calculator.calculate_daily_stress(list, previous_day_stress), as the pages call it
Scored(list, previous_day_stress) ==
    LET out == calculate_daily_stress(list, previous_day_stress, vader)
    IN  [previous_day_stress |-> previous_day_stress] @@
        Outcome(IF "raised" \in DOMAIN out THEN out ELSE Returned(out))

InitWith(in, vader_available) ==
    /\ inputs = in
    /\ vader \in vader_available
    /\ events = << >>
    /\ result = NoCall
    /\ items = << >>
    /\ calendar_data = None
    /\ parsed = NoCall
    /\ exported = None
    /\ reparsed = NoCall
    /\ validated = NoCall
    /\ suggestions = NoCall
    /\ emergency = NoCall
    /\ session = [authenticated |-> FALSE, username |-> None, calendar_provider |-> None,
                  google_credentials |-> None]

Init ==
    InitWith([pool |-> WeekPool, max_events |-> MaxEvents, args |-> WeekArgs], BOOLEAN)

InitChain ==
    InitWith([pool |-> ChainPool, max_events |-> MaxChain, args |-> {NoneArg}], BOOLEAN)

\* A day scored as score_day(events): no previous-day stress, and the
\* keyword sentiment the calculator falls back to.
InitSuggest ==
    InitWith([pool |-> SuggestPool, max_events |-> MaxDay, args |-> {NoneArg}], {FALSE})

\* The parser imports nothing of the calculator.
InitParse == InitWith([pool |-> {}, max_events |-> 0, args |-> {}], {FALSE})

\* The caller's list gains an event.  A page that shows a result computes it
\* again from the list it now holds, with the argument it passed before.
AddEvent(e) ==
    /\ Len(events) < inputs.max_events
    /\ \A i \in 1..Len(events) : events[i] # e
    /\ events' = Append(events, e)
    /\ result' = IF result.status = "none" THEN NoCall
                 ELSE Scored(events', result.previous_day_stress)
    /\ suggestions' = NoCall
    /\ emergency' = NoCall
    /\ UNCHANGED <<inputs, vader>>
    /\ UNCHANGED parsing_vars
    /\ UNCHANGED session

\* calculator.calculate_daily_stress(events, previous_day_stress)
CalculateDailyStress(previous_day_stress) ==
    /\ result' = Scored(events, previous_day_stress)
    /\ suggestions' = NoCall
    /\ emergency' = NoCall
    /\ UNCHANGED <<inputs, vader, events>>
    /\ UNCHANGED parsing_vars
    /\ UNCHANGED session

\* A raw item joins the list the next payload is built around.
AddItem(item) ==
    /\ calendar_data = None
    /\ Len(items) < MaxItems
    /\ \A i \in 1..Len(items) : items[i] # item
    /\ items' = Append(items, item)
    /\ UNCHANGED <<events, calendar_data, parsed, exported, reparsed, validated>>
    /\ UNCHANGED scoring_vars
    /\ UNCHANGED suggestion_vars
    /\ UNCHANGED session

\* calendar_data_page, on an uploaded file: calendar_data is stored, then
\* parsed; parsed_events is stored when parse_calendar returns.  The script
\* runs anew, so the texts the run before held are gone.
UploadCalendar(shape) ==
    LET data == Payload(shape, items)
        out == Outcome(parse_calendar(data))
    IN  /\ calendar_data' = data
        /\ parsed' = out
        /\ events' = IF out.status = "returned" THEN out.value ELSE events
        /\ exported' = None
        /\ reparsed' = NoCall
        /\ validated' = NoCall
        /\ UNCHANGED items
        /\ UNCHANGED scoring_vars
        /\ UNCHANGED suggestion_vars
        /\ UNCHANGED session

\* parser.export_events_to_json(events)
ExportEvents(now) ==
    /\ parsed.status = "returned"
    /\ exported' = export_events_to_json(events, now)
    /\ UNCHANGED <<events, items, calendar_data, parsed, reparsed, validated>>
    /\ UNCHANGED scoring_vars
    /\ UNCHANGED suggestion_vars
    /\ UNCHANGED session

\* parser.parse_calendar(json.loads(exported))
ParseExported ==
    /\ exported # None
    /\ reparsed' = Outcome(parse_calendar(json_loads(exported)))
    /\ UNCHANGED <<events, items, calendar_data, parsed, exported, validated>>
    /\ UNCHANGED scoring_vars
    /\ UNCHANGED suggestion_vars
    /\ UNCHANGED session

\* parser.validate_calendar_data(calendar_data)
ValidateCalendarData ==
    /\ calendar_data # None
    /\ validated' = Outcome(Returned(validate_calendar_data(calendar_data)))
    /\ UNCHANGED <<events, items, calendar_data, parsed, exported, reparsed>>
    /\ UNCHANGED scoring_vars
    /\ UNCHANGED suggestion_vars
    /\ UNCHANGED session

\* suggestions_page: the events of the selected day, kept in the order the
\* calendar lists them, which is by start time; generate_suggestions sorts
\* its input by start time before anything reads the order
\* (suggestion_engine.py:49).  The page computes the analysis again.
AddDayEvent(e) ==
    /\ \A i \in 1..Len(events) : events[i].start_time < e.start_time
    /\ AddEvent(e)

\* suggestions_page: engine.generate_suggestions(events, stress_analysis) on the
\* analysis held, the generator yielding r1 in the call's own search for
\* breaks and r2 in the daily plan's
GenerateSuggestions(r1, r2) ==
    /\ result.status = "returned"
    /\ suggestions' = Outcome(Returned(generate_suggestions(events, result.value, r1, r2)))
    /\ UNCHANGED <<inputs, vader, events, result, emergency>>
    /\ UNCHANGED parsing_vars
    /\ UNCHANGED session

\* suggestions_page: engine.get_emergency_suggestions(stress_score)
GetEmergencySuggestions ==
    /\ result.status = "returned"
    /\ emergency' =
            Outcome(Returned(get_emergency_suggestions(result.value.daily_stress_score)))
    /\ UNCHANGED <<inputs, vader, events, result, suggestions>>
    /\ UNCHANGED parsing_vars
    /\ UNCHANGED session

\* ----------------------------------------------------------------- session

\* The script's first run on a session: the keys it finds absent are set
\* (app.py:21-31).  The file the user will upload holds one well-formed item.
InitSession ==
    /\ inputs = [pool |-> {}, max_events |-> 0, args |-> {}]
    /\ vader = FALSE
    /\ events = << >>
    /\ result = NoCall
    /\ items = << CHOOSE item \in ItemPool : "id" \in DOMAIN item /\ item.id = "a" >>
    /\ calendar_data = None
    /\ parsed = NoCall
    /\ exported = None
    /\ reparsed = NoCall
    /\ validated = NoCall
    /\ suggestions = NoCall
    /\ emergency = NoCall
    /\ session = [authenticated |-> FALSE, username |-> None, calendar_provider |-> None,
                  google_credentials |-> None]

\* What GoogleCalendarAPI.get_calendar_events meets: the status of the
\* response and the list it builds from the items of a 200.  A 401 makes it
\* call logout(), which deletes the stored credentials; everything but a 200
\* returns None.  The entries of the list carry start_time and end_time.
Fetches ==
    { [status_code |-> 200, calendar_events |-> << >>],
      [status_code |-> 200,
       calendar_events |->
            << [id |-> "g1", title |-> TitleTeamSync,
                start_time |-> DateTimeStr(0, 9, 0), end_time |-> DateTimeStr(0, 9, 30),
                duration_minutes |-> 30, attendees |-> IntVal(2),
                event_type |-> "meeting", participants |-> 2] >>],
      [status_code |-> 401, calendar_events |-> << >>],
      [status_code |-> 500, calendar_events |-> << >>] }

\* What open() and json.load find under data/sample_calendars: no file, or a
\* payload of one of these shapes around `items`
SampleShapes == { "missing", "events", "value", "other" }

\* handle_login(username, password): the page is shown while the session is
\* not authenticated; `matches` says whether USER_DATABASE holds the hash.
handle_login(username, matches) ==
    /\ ~session.authenticated
    /\ session' = IF matches
                  THEN [session EXCEPT !.authenticated = TRUE, !.username = StrVal(username)]
                  ELSE session
    /\ UNCHANGED <<inputs, vader, events, result, items, calendar_data, parsed, exported,
                   reparsed, validated, suggestions, emergency>>

\* handle_signup(username, password, confirm_password): `accepted` says
\* whether the four checks passed.  USER_DATABASE is built again by every run
\* of the script, so the entry added is not state.
handle_signup(username, accepted) ==
    /\ ~session.authenticated
    /\ session' = IF accepted
                  THEN [session EXCEPT !.authenticated = TRUE, !.username = StrVal(username)]
                  ELSE session
    /\ UNCHANGED <<inputs, vader, events, result, items, calendar_data, parsed, exported,
                   reparsed, validated, suggestions, emergency>>

\* main() on a run whose query parameters hold 'code': handle_oauth_callback()
\* and nothing else, whatever the session holds (app.py:101-104).  `secrets`
\* says whether GoogleCalendarAPI() finds its configuration, `exchanged`
\* whether the token endpoint answered 200.  With events, calendar_data is
\* stored and CalendarParser has no parse_google_calendar_events: the
\* AttributeError is caught at line 96 with parsed_events and
\* calendar_provider as they were.  Without, the empty setup is stored.
handle_oauth_callback(secrets, exchanged, fetched) ==
    LET loaded == fetched.status_code = 200 /\ fetched.calendar_events # << >>
        credentials == IF fetched.status_code = 401 THEN None
                       ELSE [authenticated |-> TRUE]
    IN  IF ~(secrets /\ exchanged) THEN UNCHANGED vars
        ELSE
        /\ session' =
                [session EXCEPT
                    !.google_credentials = credentials,
                    !.calendar_provider = IF loaded THEN @ ELSE StrVal("google")]
        /\ calendar_data' =
                [t |-> "dict",
                 v |-> [events |-> ListVal(IF loaded THEN fetched.calendar_events
                                           ELSE << >>)]]
        /\ events' = IF loaded THEN events ELSE << >>
        /\ parsed' = IF loaded THEN Outcome(Raised("AttributeError")) ELSE NoCall
        /\ UNCHANGED <<inputs, vader, result, items, exported, reparsed, validated,
                       suggestions, emergency>>

\* show_calendar_provider_selection: the Reset Session button
ResetSession ==
    /\ session.authenticated
    /\ session.calendar_provider = None
    /\ session' = [session EXCEPT !.google_credentials = None]
    /\ calendar_data' = None
    /\ events' = << >>
    /\ parsed' = NoCall
    /\ UNCHANGED <<inputs, vader, result, items, exported, reparsed, validated,
                   suggestions, emergency>>

\* show_calendar_provider_selection: the Google Calendar button, that is
\* load_calendar_data("google").  Without stored credentials only the link
\* is shown.  With them the events are fetched; a non-empty list is stored as
\* calendar_data and the missing parser method raises into line 295.
load_calendar_data_google(secrets, fetched) ==
    /\ session.authenticated
    /\ session.calendar_provider = None
    /\ IF ~secrets \/ session.google_credentials = None THEN UNCHANGED vars
       ELSE
       /\ session' = IF fetched.status_code = 401
                     THEN [session EXCEPT !.google_credentials = None]
                     ELSE session
       /\ IF fetched.status_code = 200 /\ fetched.calendar_events # << >>
          THEN /\ calendar_data' =
                        [t |-> "dict", v |-> [events |-> ListVal(fetched.calendar_events)]]
               /\ parsed' = Outcome(Raised("AttributeError"))
          ELSE UNCHANGED <<calendar_data, parsed>>
       /\ UNCHANGED <<inputs, vader, events, result, items, exported, reparsed, validated,
                      suggestions, emergency>>

\* show_calendar_provider_selection: the Microsoft Outlook button.  The
\* provider is set, then load_calendar_data("outlook") reads the sample file
\* of the given shape ("missing": neither file is there) and parses it;
\* whatever is raised is caught at line 318.
load_calendar_data_outlook(shape) ==
    LET data == Payload(shape, items)
        out == Outcome(parse_calendar(data))
    IN  /\ session.authenticated
        /\ session.calendar_provider = None
        /\ session' = [session EXCEPT !.calendar_provider = StrVal("outlook")]
        /\ IF shape = "missing" THEN UNCHANGED <<calendar_data, parsed, events>>
           ELSE /\ calendar_data' = data
                /\ parsed' = out
                /\ events' = IF out.status = "returned" THEN out.value ELSE events
        /\ UNCHANGED <<inputs, vader, result, items, exported, reparsed, validated,
                       suggestions, emergency>>

\* logout(), from the provider selection or the sidebar
logout ==
    /\ session.authenticated
    /\ session' = [authenticated |-> FALSE, username |-> None, calendar_provider |-> None,
                   google_credentials |-> None]
    /\ calendar_data' = None
    /\ events' = << >>
    /\ parsed' = NoCall
    /\ UNCHANGED <<inputs, vader, result, items, exported, reparsed, validated,
                   suggestions, emergency>>

\* show_main_app: the Disconnect Google Calendar button
DisconnectGoogle(secrets) ==
    /\ session.authenticated
    /\ session.calendar_provider = StrVal("google")
    /\ secrets
    /\ session.google_credentials # None
    /\ session' = [session EXCEPT !.google_credentials = None, !.calendar_provider = None]
    /\ calendar_data' = None
    /\ events' = << >>
    /\ parsed' = NoCall
    /\ UNCHANGED <<inputs, vader, result, items, exported, reparsed, validated,
                   suggestions, emergency>>

\* show_main_app: the Switch Calendar button
SwitchCalendar ==
    /\ session.authenticated
    /\ session.calendar_provider # None
    /\ session' = [session EXCEPT !.calendar_provider = None]
    /\ calendar_data' = None
    /\ events' = << >>
    /\ parsed' = NoCall
    /\ UNCHANGED <<inputs, vader, result, items, exported, reparsed, validated,
                   suggestions, emergency>>

\* calendar_data_page: the Refresh Calendar Data button.  What the missing
\* parser method raises is swallowed by the bare except at line 491.
RefreshCalendarData(secrets, fetched) ==
    /\ session.authenticated
    /\ session.calendar_provider = StrVal("google")
    /\ secrets
    /\ session.google_credentials # None
    /\ session' = IF fetched.status_code = 401
                  THEN [session EXCEPT !.google_credentials = None]
                  ELSE session
    /\ IF fetched.status_code = 200 /\ fetched.calendar_events # << >>
       THEN /\ calendar_data' =
                    [t |-> "dict", v |-> [events |-> ListVal(fetched.calendar_events)]]
            /\ parsed' = Outcome(Raised("AttributeError"))
       ELSE UNCHANGED <<calendar_data, parsed>>
    /\ UNCHANGED <<inputs, vader, events, result, items, exported, reparsed, validated,
                   suggestions, emergency>>

\* load_sample_calendar(sample_type), the sample file being of the given
\* shape ("missing": FileNotFoundError before anything is stored)
load_sample_calendar(shape) ==
    LET data == Payload(shape, items)
        out == Outcome(parse_calendar(data))
    IN  /\ session.authenticated
        /\ session.calendar_provider # None
        /\ IF shape = "missing" THEN UNCHANGED <<calendar_data, parsed, events>>
           ELSE /\ calendar_data' = data
                /\ parsed' = out
                /\ events' = IF out.status = "returned" THEN out.value ELSE events
        /\ UNCHANGED <<inputs, vader, result, items, exported, reparsed, validated,
                       suggestions, emergency, session>>

\* calendar_data_page is reached through show_main_app: the upload belongs
\* to an authenticated session with a provider.
calendar_data_page_upload(shape) ==
    /\ session.authenticated
    /\ session.calendar_provider # None
    /\ UploadCalendar(shape)

Next ==
    \/ \E e \in inputs.pool : AddEvent(e)
    \/ \E a \in inputs.args : CalculateDailyStress(a)

NextParse ==
    \/ \E item \in ItemPool : AddItem(item)
    \/ \E shape \in Shapes : UploadCalendar(shape)
    \/ \E now \in Clock : ExportEvents(now)
    \/ ParseExported
    \/ ValidateCalendarData

NextSuggest ==
    \/ \E e \in inputs.pool : AddDayEvent(e)
    \/ \E a \in inputs.args : CalculateDailyStress(a)
    \/ \E r1, r2 \in Draws : GenerateSuggestions(r1, r2)
    \/ GetEmergencySuggestions

\* main(): one run of the script per step, on the callback's query
\* parameters or on a press of a button of the page the session is shown
NextSession ==
    \/ \E username \in {"demo_user", "test_user"}, matches \in BOOLEAN :
            handle_login(username, matches)
    \/ \E accepted \in BOOLEAN : handle_signup("new_user", accepted)
    \/ \E secrets, exchanged \in BOOLEAN, fetched \in Fetches :
            handle_oauth_callback(secrets, exchanged, fetched)
    \/ ResetSession
    \/ \E secrets \in BOOLEAN, fetched \in Fetches :
            load_calendar_data_google(secrets, fetched)
    \/ \E shape \in SampleShapes : load_calendar_data_outlook(shape)
    \/ logout
    \/ \E secrets \in BOOLEAN : DisconnectGoogle(secrets)
    \/ SwitchCalendar
    \/ \E secrets \in BOOLEAN, fetched \in Fetches : RefreshCalendarData(secrets, fetched)
    \/ \E shape \in SampleShapes : load_sample_calendar(shape)
    \/ \E shape \in Shapes : calendar_data_page_upload(shape)

Spec == Init /\ [][Next]_vars

SpecChain == InitChain /\ [][Next]_vars

SpecParse == InitParse /\ [][NextParse]_vars

SpecSuggest == InitSuggest /\ [][NextSuggest]_vars

SpecSession == InitSession /\ [][NextSession]_vars

\* ------------------------------------------------------------------- claims

\* C1: whatever the events and the previous-day stress value, a score that
\* calculate_daily_stress returns lies in [0, 100] (0..1000 tenths).
C1_ScoreInRange ==
    result.status = "returned" =>
        /\ result.value.daily_stress_score >= 0
        /\ result.value.daily_stress_score <= 1000

\* A day whose raw stress exceeds 100 has been scored, at 100.
C1_Witness ==
    /\ result.status = "returned"
    /\ events # << >>
    /\ raw_stress_of(events, result.previous_day_stress, vader) > 100000
    /\ result.value.daily_stress_score = 1000

\* C3: scoring the empty list returns (it does not raise) score 0 and the
\* level "No Meetings".
C3_EmptyListScoresZero ==
    (result.status # "none" /\ events = << >>) =>
        /\ result.status = "returned"
        /\ result.value.daily_stress_score = 0
        /\ result.value.stress_level = "No Meetings"

\* The empty list has been scored.
C3_Witness ==
    /\ events = << >>
    /\ result.status = "returned"
    /\ result.value.stress_level = "No Meetings"

\* C2: parsing the text export_events_to_json produced gives a list of the
\* same length whose i-th event has the id, start, end, title and
\* duration_minutes of the i-th exported event.
C2_ExportParseRoundTrip ==
    reparsed.status # "none" =>
        /\ reparsed.status = "returned"
        /\ Len(reparsed.value) = Len(events)
        /\ \A i \in 1..Len(events) :
            /\ reparsed.value[i].id = events[i].id
            /\ reparsed.value[i].start_time = events[i].start_time
            /\ reparsed.value[i].end_time = events[i].end_time
            /\ reparsed.value[i].title = events[i].title
            /\ duration_minutes(reparsed.value[i]) = duration_minutes(events[i])

\* the title keywords of a personal break
lunch_break_keywords ==
    { <<"l", "u", "n", "c", "h">>, <<"b", "r", "e", "a", "k">>, <<"m", "e", "a", "l">> }

\* A personal lunch/break event: its text holds a lunch/break/meal keyword, or
\* it lies inside 13:00-14:00 with at most 2 participants and no high-stress
\* keyword.
IsPersonalBreak(event) ==
    LET text == lower(event_text(event))
        day == date_of(event.start_time)
    IN  \/ any_keyword(text, lunch_break_keywords)
        \/ /\ event.start_time >= At(day, 13, 0)
           /\ event.end_time <= At(day, 14, 0)
           /\ event.participants <= 2
           /\ ~any_keyword(text, high_stress_keywords)

\* C4: a day whose events are all personal lunch/break events is scored as a
\* day without meetings: score 0 and level "No Meetings".
C4_BreaksOnlyDayScoresZero ==
    (/\ result.status = "returned"
     /\ events # << >>
     /\ \A i \in 1..Len(events) : IsPersonalBreak(events[i])) =>
        /\ result.value.daily_stress_score = 0
        /\ result.value.stress_level = "No Meetings"

\* meeting m has, in the start-time order of list, a neighbour at a gap of at
\* most 10 minutes
HasBackToBackNeighbour(list, m) ==
    LET meetings_sorted == sorted_by_start(list)
    IN  \E i \in 1..Len(meetings_sorted) - 1 :
            /\ m \in {meetings_sorted[i], meetings_sorted[i + 1]}
            /\ gap_minutes(meetings_sorted[i], meetings_sorted[i + 1]) <= 10

\* C5: when a meeting with a neighbour at most 10 minutes away joins a day, the
\* back_to_back_penalty computed for the day does not decrease.
C5_BackToBackMonotone ==
    [][(/\ result.status = "returned"
        /\ result'.status = "returned"
        /\ Len(events') = Len(events) + 1
        /\ HasBackToBackNeighbour(events', events'[Len(events')])) =>
            result'.value.components.back_to_back_penalty
                >= result.value.components.back_to_back_penalty]_vars

\* the events of list that start on calendar day d
starting_on(list, d) == SelectSeq(list, LAMBDA e : date_of(e.start_time) = d)

\* C7: called with events of several calendar days and a target date, the
\* engine returns (it does not raise) the result of scoring only the events
\* that start on that date.
C7_TargetDateFilters ==
    (/\ result.status # "none"
     /\ result.previous_day_stress.t = "date"
     /\ \E i, j \in 1..Len(events) :
            date_of(events[i].start_time) # date_of(events[j].start_time)) =>
        /\ result.status = "returned"
        /\ result.value =
            calculate_daily_stress(
                starting_on(events, result.previous_day_stress.v), NoneArg, vader)

\* C8: every returned result holds score, level, components, recommendations
\* and meeting_analysis, the last with the totals a caller reads.
C8_ResultComplete ==
    result.status = "returned" =>
        /\ { "daily_stress_score", "stress_level", "components",
             "recommendations", "meeting_analysis" } \subseteq DOMAIN result.value
        /\ "total_meetings" \in DOMAIN result.value.meeting_analysis

\* the payload's top level matches no supported schema: no list under
\* "items", "value" or "events", and not a bare list
Unsupported(data) ==
    /\ data.t # "list"
    /\ \A key \in {"items", "value", "events"} :
        ~(key \in DOMAIN data.v /\ data.v[key].t = "list")

\* C9: parsing a payload of no supported schema raises the unsupported-format
\* error; no event list is returned.
C9_UnsupportedFormatRaises ==
    (parsed.status # "none" /\ Unsupported(calendar_data)) =>
        /\ parsed.status = "raised"
        /\ parsed.value = "ValueError: Unsupported calendar format detected"

\* A payload with items under an unknown key has been parsed.
C9_Witness ==
    /\ parsed.status = "raised"
    /\ calendar_data.t = "dict"
    /\ "data" \in DOMAIN calendar_data.v
    /\ Len(items) = MaxItems
    /\ Unsupported(calendar_data)

\* the schema a recognised payload is read by, and the item list read
SchemaOf(data) ==
    IF data.t = "list" THEN "custom"
    ELSE IF "items" \in DOMAIN data.v /\ data.v.items.t = "list" THEN "google"
    ELSE IF "value" \in DOMAIN data.v /\ data.v.value.t = "list" THEN "outlook"
    ELSE "custom"

ItemsOf(data) ==
    IF data.t = "list" THEN data.v
    ELSE IF SchemaOf(data) = "google" THEN data.v.items.v
    ELSE IF SchemaOf(data) = "outlook" THEN data.v.value.v
    ELSE data.v.events.v

\* a start or end the schema can read: a date-time or date string for the
\* generic schema, an object holding one under dateTime (or, for Google, date)
\* for the provider schemas
Readable(schema, item, field) ==
    /\ field \in DOMAIN item
    /\ IF schema = "custom" THEN item[field].kind \in {"datetime", "date"}
       ELSE /\ item[field].kind = "object"
            /\ \E key \in (IF schema = "google" THEN {"dateTime", "date"} ELSE {"dateTime"}) :
                /\ key \in DOMAIN item[field]
                /\ item[field][key].kind \in {"datetime", "date"}

WellFormed(schema, item) == Readable(schema, item, "start") /\ Readable(schema, item, "end")

\* C10: for a recognised schema the parse returns, without raising, exactly
\* the well-formed items as events, in input order (none for an empty list).
C10_MalformedItemsSkipped ==
    (parsed.status # "none" /\ ~Unsupported(calendar_data)) =>
        LET schema == SchemaOf(calendar_data)
            kept == SelectSeq(ItemsOf(calendar_data), LAMBDA item : WellFormed(schema, item))
        IN  /\ parsed.status = "returned"
            /\ Len(parsed.value) = Len(kept)
            /\ \A i \in 1..Len(kept) : parsed.value[i] = create_event(schema, kept[i])

\* A malformed item ahead of a well-formed one has been parsed.
C10_Witness ==
    /\ parsed.status = "returned"
    /\ ~Unsupported(calendar_data)
    /\ Len(ItemsOf(calendar_data)) = 2
    /\ ~WellFormed(SchemaOf(calendar_data), ItemsOf(calendar_data)[1])
    /\ WellFormed(SchemaOf(calendar_data), ItemsOf(calendar_data)[2])
    /\ Len(parsed.value) = 1

\* An empty list of a recognised schema has been parsed.
C10_EmptyParsed ==
    /\ parsed.status = "returned"
    /\ ~Unsupported(calendar_data)
    /\ ItemsOf(calendar_data) = << >>
    /\ parsed.value = << >>

\* C11: every event parse_calendar returns has start < end, a positive
\* duration and a participant count of at least 0.
C11_ParsedEventsValid ==
    parsed.status = "returned" =>
        \A i \in 1..Len(parsed.value) :
            /\ parsed.value[i].start_time < parsed.value[i].end_time
            /\ duration_minutes(parsed.value[i]) > 0
            /\ parsed.value[i].participants >= 0

\* the number of consecutive pairs of list, in start-time order, whose gap
\* is at most 10 minutes, and in (10, 30] minutes
BackToBackPairs(list) ==
    LET meetings_sorted == sorted_by_start(list)
    IN  Cardinality({i \in 1..Len(meetings_sorted) - 1 :
            gap_minutes(meetings_sorted[i], meetings_sorted[i + 1]) <= 10})

ShortGapPairs(list) ==
    LET meetings_sorted == sorted_by_start(list)
    IN  Cardinality({i \in 1..Len(meetings_sorted) - 1 :
            LET gap == gap_minutes(meetings_sorted[i], meetings_sorted[i + 1])
            IN  10 < gap /\ gap <= 30})

\* the back-to-back penalty of a day whose only transition is back to back:
\* two half-hour meetings, the second starting as the first ends (in milli)
OneTransitionPenalty ==
    _calculate_back_to_back_penalty(
        << Event("p1", TitleWork, At(0, 9, 0), At(0, 9, 30), 2),
           Event("p2", TitleWork, At(0, 9, 30), At(0, 10, 0), 2) >>)

\* C16: the back-to-back penalty is additive over consecutive pairs: a day
\* with k transitions of gap <= 10 minutes, and none of gap in (10, 30], has k
\* times the penalty of one transition.
C16_BackToBackAdditive ==
    (result.status = "returned" /\ events # << >> /\ ShortGapPairs(events) = 0) =>
        result.value.components.back_to_back_penalty
            = round1(BackToBackPairs(events) * OneTransitionPenalty)

\* C17: a light day, at the least a day with a single meeting of at most one
\* hour, never scores above 40.
C17_LightDayCappedAt40 ==
    (/\ result.status = "returned"
     /\ Len(events) = 1
     /\ duration_minutes(events[1]) <= 60) =>
        result.value.daily_stress_score <= 400

\* the level the thresholds 25, 50 and 75 give a score (in tenths)
LevelOfScore(score) ==
    IF score <= 250 THEN "Low Stress"
    ELSE IF score <= 500 THEN "Moderate Stress"
    ELSE IF score <= 750 THEN "High Stress"
    ELSE "Critical Stress"

\* C18: the level of a non-empty day is Low for a score <= 25, Moderate in
\* (25, 50], High in (50, 75] and Critical above 75.
C18_LevelThresholds ==
    (result.status = "returned" /\ events # << >>) =>
        result.value.stress_level = LevelOfScore(result.value.daily_stress_score)

\* raw item k of the payload is skipped as malformed, or gives an event that
\* violates start < end, duration_minutes > 0 or participants >= 0
NeedsReport(data, k) ==
    LET event == create_event(SchemaOf(data), ItemsOf(data)[k])
    IN  \/ "raised" \in DOMAIN event
        \/ event.start_time >= event.end_time
        \/ duration_minutes(event) <= 0
        \/ event.participants < 0

\* C12: validate_calendar_data does not raise, and for every raw item that is
\* skipped or violates an Event invariant the error list holds a string
\* naming that item's index in the raw input (counted from 0).
C12_ValidationReportsByRawIndex ==
    (validated.status # "none" /\ ~Unsupported(calendar_data)) =>
        /\ validated.status = "returned"
        /\ \A k \in 1..Len(ItemsOf(calendar_data)) :
            NeedsReport(calendar_data, k) =>
                \E j \in 1..Len(validated.value) :
                    /\ "index" \in DOMAIN validated.value[j]
                    /\ validated.value[j].index = k - 1

\* the consecutive pairs of the day in start-time order, by the index of the
\* earlier meeting, whose gap is at least 2 minutes and whose earlier meeting
\* ends at clock time t
PairsWithBreakAt(list, t) ==
    LET meetings_sorted == sorted_by_start(list)
    IN  {i \in 1..Len(meetings_sorted) - 1 :
            /\ gap_minutes(meetings_sorted[i], meetings_sorted[i + 1]) >= 2
            /\ strftime_HM(meetings_sorted[i].end_time) = t}

\* the suggestions placed between two meetings: not the preparation before
\* the first meeting, not the 15-minute recovery after the last
IsBetweenMeetings(suggestion) ==
    suggestion.type # "preparation" /\ suggestion.duration # 15

IsExtendedRecovery(suggestion) == suggestion.priority = 5 /\ suggestion.duration = 20

\* the clock times at which a meeting of the day ends
EndTimes(list) == {strftime_HM(list[i].end_time) : i \in 1..Len(list)}

\* C13 as stated: for a day of 2 or more events the between-meeting breaks
\* are, at each clock time, as many as the pairs with a gap of at least 2
\* minutes whose earlier meeting ends then: each such pair once, no other.
C13_GapCoverage ==
    (suggestions.status = "returned" /\ Len(events) >= 2) =>
        LET breaks == suggestions.value.break_suggestions
        IN  /\ \A j \in 1..Len(breaks) : breaks[j].time \in EndTimes(events) \/ ~IsBetweenMeetings(breaks[j])
            /\ \A t \in EndTimes(events) :
                Cardinality({j \in 1..Len(breaks) :
                    IsBetweenMeetings(breaks[j]) /\ breaks[j].time = t})
                = Cardinality(PairsWithBreakAt(events, t))

\* the pair with the first longest gap of the day, 0 if no gap exceeds 0
LongestGapPair(list) ==
    LET meetings_sorted == sorted_by_start(list)
        gaps == [i \in 1..Len(meetings_sorted) - 1 |->
                    gap_minutes(meetings_sorted[i], meetings_sorted[i + 1])]
    IN  IF \A i \in DOMAIN gaps : gaps[i] <= 0 THEN 0
        ELSE CHOOSE i \in DOMAIN gaps :
                /\ \A j \in DOMAIN gaps : gaps[j] <= gaps[i]
                /\ \A j \in 1..(i - 1) : gaps[j] < gaps[i]

\* C13 as amended: each pair with a gap of at least 2 minutes has exactly one
\* break of the pair loop, timed at the end of its earlier meeting, and pairs
\* with a smaller gap none; the one further between-meeting suggestion is the
\* extended recovery of a day of 4 or more events, at its longest gap when
\* that is 30 minutes or more.
C13_GapCoverageAmended ==
    (suggestions.status = "returned" /\ Len(events) >= 2) =>
        LET breaks == suggestions.value.break_suggestions
            meetings_sorted == sorted_by_start(events)
            longest == LongestGapPair(events)
            heavy ==
                /\ Len(events) >= 4
                /\ longest # 0
                /\ gap_minutes(meetings_sorted[longest], meetings_sorted[longest + 1]) >= 30
            extended == {j \in 1..Len(breaks) : IsExtendedRecovery(breaks[j])}
        IN  /\ \A j \in 1..Len(breaks) :
                breaks[j].time \in EndTimes(events) \/ ~IsBetweenMeetings(breaks[j])
            /\ \A t \in EndTimes(events) :
                Cardinality({j \in 1..Len(breaks) :
                    /\ IsBetweenMeetings(breaks[j])
                    /\ ~IsExtendedRecovery(breaks[j])
                    /\ breaks[j].time = t})
                = Cardinality(PairsWithBreakAt(events, t))
            /\ Cardinality(extended) = (IF heavy THEN 1 ELSE 0)
            /\ \A j \in extended :
                breaks[j].time = strftime_HM(meetings_sorted[longest].end_time)

\* Suggestions were generated for a day of 4 events with a gap below 2
\* minutes, gaps of 2 minutes and more, and an extended recovery break.
C13_Witness ==
    /\ suggestions.status = "returned"
    /\ Len(events) >= 4
    /\ \E i \in 1..Len(events) - 1 :
        gap_minutes(sorted_by_start(events)[i], sorted_by_start(events)[i + 1]) \in 0..1
    /\ \E t \in EndTimes(events) : PairsWithBreakAt(events, t) # {}
    /\ \E j \in 1..Len(suggestions.value.break_suggestions) :
        IsExtendedRecovery(suggestions.value.break_suggestions[j])

\* C14: for an empty event list generate_suggestions returns no break
\* suggestions, exactly one optimization tip, and a daily plan made of the
\* single default entry.
C14_EmptyDayDefaultPlan ==
    (suggestions.status = "returned" /\ events = << >>) =>
        /\ suggestions.value.break_suggestions = << >>
        /\ Len(suggestions.value.optimization_tips) = 1
        /\ suggestions.value.daily_plan = _create_daily_plan(<< >>, 0)
        /\ Len(suggestions.value.daily_plan) = 1

CriticalActions ==
    << "IMMEDIATE: Take 10 deep breaths right now",
       "Cancel or reschedule non-critical meetings",
       "Block 15-minute recovery breaks in your calendar" >>

CautionaryActions ==
    << "Take a 5-minute break before your next meeting",
       "Prepare agendas to make meetings more efficient",
       "Consider declining optional meetings today" >>

\* the score the emergency suggestions were asked for, in tenths
EmergencyScore == result.value.daily_stress_score

\* C15 as stated: a score of 75 or more gets the critical list, a score of
\* 50 or more below 75 the strictly shorter cautionary list, a score below 50
\* the empty list.
C15_EmergencyPartition ==
    emergency.status = "returned" =>
        /\ EmergencyScore >= 750 => emergency.value = CriticalActions
        /\ (EmergencyScore >= 500 /\ EmergencyScore < 750) =>
            /\ emergency.value = CautionaryActions
            /\ Len(emergency.value) < Len(CriticalActions)
        /\ EmergencyScore < 500 => emergency.value = << >>

\* C15 as amended: a score of 75 or more gets the critical list, a score of
\* 50 or more below 75 the cautionary list, which is a different list of the
\* same length of three, and a score below 50 the empty list.
C15_EmergencyPartitionAmended ==
    emergency.status = "returned" =>
        /\ EmergencyScore >= 750 => emergency.value = CriticalActions
        /\ (EmergencyScore >= 500 /\ EmergencyScore < 750) =>
            /\ emergency.value = CautionaryActions
            /\ emergency.value # CriticalActions
            /\ Len(emergency.value) = Len(CriticalActions)
        /\ EmergencyScore < 500 => emergency.value = << >>

\* Emergency suggestions were returned for a score of 50 or more below 75.
C15_Witness ==
    /\ emergency.status = "returned"
    /\ EmergencyScore >= 500
    /\ EmergencyScore < 750
    /\ emergency.value = CautionaryActions

\* the meeting overlaps the 13:00 to 14:00 window of its day
OverlapsLunch(event) ==
    /\ event.start_time < At(date_of(event.start_time), 14, 0)
    /\ event.end_time > At(date_of(event.start_time), 13, 0)

\* C19: when a scored meeting overlaps 13:00 to 14:00 the analysis carries a
\* positive lunch_disruption_penalty component and the optimization tips
\* contain the lunch tip.
C19_LunchPenaltyAndTip ==
    (/\ suggestions.status = "returned"
     /\ \E i \in 1..Len(events) : ~IsPersonalBreak(events[i]) /\ OverlapsLunch(events[i])) =>
        /\ "lunch_disruption_penalty" \in DOMAIN result.value.components
        /\ result.value.components["lunch_disruption_penalty"] > 0
        /\ \E k \in 1..Len(suggestions.value.optimization_tips) :
            suggestions.value.optimization_tips[k] = TipLunch

\* the entries of a plan that are breaks, in plan order
RECURSIVE BreakEntries(_)
BreakEntries(plan) ==
    IF plan = << >> THEN << >>
    ELSE (IF Head(plan).type = "break" THEN << Head(plan) >> ELSE << >>)
         \o BreakEntries(Tail(plan))

\* C20: the break entries of the daily plan are the first three break
\* suggestions of the same result, each with its time and its activity
\* followed by its duration, in time order.
C20_PlanBreaksAreTopSuggestions ==
    (suggestions.status = "returned" /\ events # << >>) =>
        LET breaks == suggestions.value.break_suggestions
            top == SubSeq(breaks, 1, Min(3, Len(breaks)))
        IN  BreakEntries(suggestions.value.daily_plan)
            = sorted_by_time([k \in 1..Len(top) |-> plan_break(top[k])])

\* the minute of the day of an 'HH:MM' time
MinuteOfDay(time) == time[1] * 60 + time[2]

\* C21: the closure entry of the daily plan is the final entry of the plan
\* and no meeting of the day ends after it.
C21_ClosureAfterLastMeeting ==
    (suggestions.status = "returned" /\ events # << >>) =>
        LET plan == suggestions.value.daily_plan
            closure == plan[Len(plan)]
        IN  /\ closure.type = "closure"
            /\ \A k \in 1..(Len(plan) - 1) : plan[k].type # "closure"
            /\ \A i \in 1..Len(events) :
                MinuteOfDay(strftime_HM(events[i].end_time)) <= MinuteOfDay(closure.time)

\* the priority, category and duration the tiers give a gap of g minutes
TierOf(g) ==
    IF g >= 15 THEN [priority |-> 4, type |-> "movement", duration |-> 10]
    ELSE IF g >= 10 THEN [priority |-> 3, type |-> "recovery", duration |-> 5]
    ELSE IF g >= 5 THEN [priority |-> 3, type |-> "mindfulness", duration |-> 3]
    ELSE [priority |-> 2, type |-> "mindfulness", duration |-> 2]

\* the gap after the i-th meeting of the day in start-time order
GapAfter(list, i) == gap_minutes(sorted_by_start(list)[i], sorted_by_start(list)[i + 1])

\* a suggestion of the pair loop: between two meetings, not the extended one
IsPairBreak(suggestion) == IsBetweenMeetings(suggestion) /\ ~IsExtendedRecovery(suggestion)

TierGiven(suggestion) ==
    [priority |-> suggestion.priority, type |-> suggestion.type,
     duration |-> suggestion.duration]

\* C22: the break of a pair with a gap of g >= 2 minutes has the priority,
\* category and duration of the tier of g: [2,5) gives 2, mindfulness, 2;
\* [5,10) gives 3, mindfulness, 3; [10,15) gives 3, recovery, 5; 15 and more
\* gives 4, movement, 10.
C22_TierByGap ==
    (suggestions.status = "returned" /\ Len(events) >= 2) =>
        LET breaks == suggestions.value.break_suggestions
        IN  \A t \in EndTimes(events) :
                /\ \A i \in PairsWithBreakAt(events, t) :
                    \E j \in 1..Len(breaks) :
                        /\ IsPairBreak(breaks[j])
                        /\ breaks[j].time = t
                        /\ TierGiven(breaks[j]) = TierOf(GapAfter(events, i))
                /\ \A j \in 1..Len(breaks) :
                    (IsPairBreak(breaks[j]) /\ breaks[j].time = t) =>
                        \E i \in PairsWithBreakAt(events, t) :
                            TierGiven(breaks[j]) = TierOf(GapAfter(events, i))

\* Suggestions were generated for a day whose gaps fall in three tiers, the
\* tier of 15 minutes and more among them.
C22_Witness ==
    /\ suggestions.status = "returned"
    /\ Len(events) >= 4
    /\ \E i \in 1..Len(events) - 1 : GapAfter(events, i) >= 15
    /\ Cardinality({TierOf(GapAfter(events, i)) :
            i \in {k \in 1..Len(events) - 1 : GapAfter(events, k) >= 2}}) >= 3

\* the title keywords that mark a high-stress meeting for a break
urgency_keywords ==
    { <<"u", "r", "g", "e", "n", "t">>, <<"c", "r", "i", "s", "i", "s">>,
      <<"r", "e", "v", "i", "e", "w">>,
      <<"p", "e", "r", "f", "o", "r", "m", "a", "n", "c", "e">> }

\* the meeting calls for a raised break priority: a high-stress title, more
\* than 5 participants or more than 60 minutes
RaisesPriority(meeting) ==
    \/ any_keyword(lower(meeting.title), urgency_keywords)
    \/ meeting.participants > 5
    \/ duration_minutes(meeting) > 60

\* C23: the break after a meeting with a high-stress title, more than 5
\* participants or more than 60 minutes has a priority above the base of
\* its gap tier, and no priority exceeds 5.
C23_PriorityRaised ==
    (suggestions.status = "returned" /\ Len(events) >= 2) =>
        LET breaks == suggestions.value.break_suggestions
            meetings_sorted == sorted_by_start(events)
        IN  /\ \A j \in 1..Len(breaks) : breaks[j].priority <= 5
            /\ \A i \in 1..Len(events) - 1 :
                (GapAfter(events, i) >= 2 /\ RaisesPriority(meetings_sorted[i])) =>
                    \A j \in 1..Len(breaks) :
                        (/\ IsPairBreak(breaks[j])
                         /\ breaks[j].time = strftime_HM(meetings_sorted[i].end_time)) =>
                            breaks[j].priority > TierOf(GapAfter(events, i)).priority

\* the day is heavy: 4 or more events and a longest gap of 30 minutes or more
IsHeavyDay(list) ==
    /\ Len(list) >= 4
    /\ LongestGapPair(list) # 0
    /\ GapAfter(list, LongestGapPair(list)) >= 30

\* C24: break_suggestions holds exactly one priority-5 suggestion, the
\* extended recovery, when the day has 4 or more events and a longest gap of
\* 30 minutes or more, timed at the start of the earliest longest gap, and
\* holds no priority-5 suggestion otherwise.
C24_HeavyDayExtendedBreak ==
    (suggestions.status = "returned" /\ events # << >>) =>
        LET breaks == suggestions.value.break_suggestions
            top == {j \in 1..Len(breaks) : breaks[j].priority = 5}
        IN  /\ Cardinality(top) = (IF IsHeavyDay(events) THEN 1 ELSE 0)
            /\ \A j \in top :
                /\ IsExtendedRecovery(breaks[j])
                /\ breaks[j].type = "recovery"
                /\ breaks[j].time =
                    strftime_HM(sorted_by_start(events)[LongestGapPair(events)].end_time)

\* Suggestions were generated for a day of 4 events in which two gaps tie
\* for the longest, of 30 minutes or more.
C24_Witness ==
    /\ suggestions.status = "returned"
    /\ IsHeavyDay(events)
    /\ \E i \in 1..Len(events) - 1 :
        /\ i # LongestGapPair(events)
        /\ GapAfter(events, i) = GapAfter(events, LongestGapPair(events))
    /\ \E j \in 1..Len(suggestions.value.break_suggestions) :
        suggestions.value.break_suggestions[j].priority = 5

\* the activity table lists the suggestion's duration under its category,
\* and its activity among the phrases of that duration
InOwnTier(suggestion) ==
    /\ \E k \in 1..Len(activity_durations(suggestion.type)) :
        activity_durations(suggestion.type)[k] = suggestion.duration
    /\ \E m \in 1..Len(activities(suggestion.type, suggestion.duration)) :
        activities(suggestion.type, suggestion.duration)[m] = suggestion.activity

\* C25: the activity of every break between two meetings is a phrase the
\* activity table lists under the break's category and duration, whatever
\* the random generator draws.
C25_ActivityFromOwnTier ==
    suggestions.status = "returned" =>
        \A j \in 1..Len(suggestions.value.break_suggestions) :
            IsPairBreak(suggestions.value.break_suggestions[j]) =>
                InOwnTier(suggestions.value.break_suggestions[j])

\* the title and the description a schema reads from a raw item
TitleText(schema, item) ==
    IF schema = "google" THEN get(item, "summary", << >>)
    ELSE IF schema = "outlook" THEN get(item, "subject", << >>)
    ELSE get(item, "title", get(item, "summary", << >>))

DescriptionText(schema, item) ==
    IF schema = "outlook"
    THEN (IF "body" \in DOMAIN item THEN get(item.body, "content", << >>) ELSE << >>)
    ELSE get(item, "description", << >>)

\* some keyword of the category occurs in the title or in the description
Names(words, schema, item) ==
    \/ any_keyword(lower(TitleText(schema, item)), words)
    \/ any_keyword(lower(DescriptionText(schema, item)), words)

\* the first category, in the order of the keyword lists, that the item names
CategoryOf(schema, item) ==
    IF Names(meeting_words, schema, item) THEN "meeting"
    ELSE IF Names(interview_words, schema, item) THEN "interview"
    ELSE IF Names(training_words, schema, item) THEN "training"
    ELSE IF Names(break_words, schema, item) THEN "break"
    ELSE IF Names(focus_words, schema, item) THEN "focus_time"
    ELSE IF Names(travel_words, schema, item) THEN "travel"
    ELSE "other"

\* C26: an item that supplies no event type gets, in every schema, the first
\* category one of whose keywords occurs in its title or description, and
\* "other" when none occurs.
C26_EventTypeInferred ==
    (parsed.status = "returned" /\ ~Unsupported(calendar_data)) =>
        LET schema == SchemaOf(calendar_data)
            kept == SelectSeq(ItemsOf(calendar_data), LAMBDA item : WellFormed(schema, item))
        IN  \A i \in 1..Len(kept) :
                ("type" \notin DOMAIN kept[i] /\ "event_type" \notin DOMAIN kept[i]) =>
                    /\ i <= Len(parsed.value)
                    /\ parsed.value[i].event_type = CategoryOf(schema, kept[i])

\* the list a payload holds for a schema: under "items" for the provider
\* items schema, under "value" for the provider value schema, under "events"
\* or the payload itself for the generic schema; none if it holds no such list
ListFor(schema, data) ==
    LET key == IF schema = "google" THEN "items"
               ELSE IF schema = "outlook" THEN "value" ELSE "events"
    IN  IF data.t = "list" THEN (IF schema = "custom" THEN <<data.v>> ELSE << >>)
        ELSE IF key \in DOMAIN data.v /\ data.v[key].t = "list" THEN <<data.v[key].v>>
        ELSE << >>

\* the events a schema's parser makes of a raw item list
ParseAs(schema, list) ==
    LET kept == SelectSeq(list, LAMBDA item : WellFormed(schema, item))
    IN  [i \in 1..Len(kept) |-> create_event(schema, kept[i])]

\* the schema the fixed priority selects: items, then value, then events or
\* a bare list
SelectedSchema(data) ==
    IF ListFor("google", data) # << >> THEN "google"
    ELSE IF ListFor("outlook", data) # << >> THEN "outlook"
    ELSE "custom"

\* C27: a payload with a list under "items" is parsed by the provider items
\* schema whatever else it holds, otherwise one with a list under "value" by
\* the provider value schema, otherwise one with a list under "events" or a
\* bare list by the generic schema; the events returned are those of that
\* one parser.
C27_DetectionPriority ==
    (parsed.status # "none" /\ ~Unsupported(calendar_data)) =>
        /\ parsed.status = "returned"
        /\ parsed.value =
            ParseAs(SelectedSchema(calendar_data),
                    ListFor(SelectedSchema(calendar_data), calendar_data)[1])

\* A payload with lists under "items", "value" and "events" has been parsed,
\* and the three parsers make different events of it.
C27_Witness ==
    /\ parsed.status = "returned"
    /\ calendar_data.t = "dict"
    /\ \A schema \in {"google", "outlook", "custom"} : ListFor(schema, calendar_data) # << >>
    /\ parsed.value # << >>
    /\ parsed.value = ParseAs("google", ListFor("google", calendar_data)[1])
    /\ parsed.value # ParseAs("outlook", ListFor("outlook", calendar_data)[1])
    /\ parsed.value # ParseAs("custom", ListFor("custom", calendar_data)[1])

\* A payload with lists under "value" and "events" has been parsed by the
\* provider value schema.
C27_ValueBeforeEvents ==
    /\ parsed.status = "returned"
    /\ calendar_data.t = "dict"
    /\ ListFor("google", calendar_data) = << >>
    /\ ListFor("outlook", calendar_data) # << >>
    /\ ListFor("custom", calendar_data) # << >>
    /\ parsed.value # << >>
    /\ parsed.value # ParseAs("custom", ListFor("custom", calendar_data)[1])

\* the lists that hold the events of list in another order
Reorderings(list) ==
    {[i \in 1..Len(list) |-> list[f[i]]] : f \in Permutations(1..Len(list))}

\* all events of list start on one day
OneDay(list) ==
    \A i, j \in 1..Len(list) : date_of(list[i].start_time) = date_of(list[j].start_time)

\* C28: for events of one day calculate_daily_stress returns the same score
\* and the same components whatever the order of the list, events with the
\* same start time included.
C28_OrderIndependent ==
    (result.status = "returned" /\ OneDay(events)) =>
        \A list \in Reorderings(events) :
            LET other == Scored(list, result.previous_day_stress)
            IN  /\ other.status = "returned"
                /\ other.value.daily_stress_score = result.value.daily_stress_score
                /\ other.value.components = result.value.components

\* C29: in every reachable session state parsed_events is what parse_calendar
\* returns for the calendar_data held, and is empty while none is held or
\* while the data held cannot be parsed: no action stores new calendar_data
\* and leaves the events parsed from earlier data.
C29_ParsedEventsFollowData ==
    IF calendar_data = None THEN events = << >>
    ELSE LET out == parse_calendar(calendar_data)
         IN  events = IF "returned" \in DOMAIN out THEN out.returned ELSE << >>

\* C30: no reachable session state has authenticated = False together with
\* a selected provider, loaded calendar data or stored Google credentials.
C30_OnlyWhileAuthenticated ==
    ~session.authenticated =>
        /\ session.calendar_provider = None
        /\ calendar_data = None
        /\ session.google_credentials = None

====
